---------------------------- MODULE Spec2Model ----------------------------
(***************************************************************************)
(* A model of the sledlite storage engine: the radix trie memtable         *)
(* (radix.rs), the write-ahead log (wal.rs), the SST files (sst.rs) and    *)
(* the engine that composes them (engine.rs).                              *)
(*                                                                         *)
(* Files are sequences of bytes; offsets are 0-based as in the source, so  *)
(* the byte at offset o of file f is f[o + 1].  An Option<T> is a sequence *)
(* of length 0 (None) or 1 (Some).                                         *)
(***************************************************************************)
EXTENDS Integers, Sequences, FiniteSets, TLC

VARIABLES
    status,          \* "up": an Engine value exists; "down": the process is not running
    walFile,         \* bytes of <dir>/wal.log
    walSynced,       \* bytes of wal.log as of the last successful sync_data
    sstFiles,        \* sst id |-> bytes of <dir>/sst-<id>.dat, for the files that exist
    wal,             \* WalWriter: [lsn, appendable_lsn]
    memtable,        \* RadixTree: path |-> value slot, for the nodes that exist
    memtable_bytes,  \* Engine.memtable_bytes
    next_lsn,        \* Engine.next_lsn
    sst_readers,     \* Engine.sst_readers: sequence of [id, index]
    last,            \* the last call of the engine API and what it returned
    prevMut,         \* the process's two most recent mutating calls, newest first
    shadow,          \* key |-> Some(v) while put(key, v) is the process's last call on key
    lastPut,         \* key |-> Some(v) for the last put(key, v) on the directory
    onlyPuts,        \* the directory's history holds successful puts of non-empty values only
    damage,          \* what was done to wal.log while the process was down
    hist,            \* the directory's history: [created, lsn, lsnBefore, crashed, acked]
    nOps,            \* put, delete and get calls made so far
    nFaults,         \* I/O faults injected so far
    nRestarts,       \* Engine::open calls made so far
    region,          \* raft-store's Region: [status, committed, last, nEntries]
    shards,          \* ShardManager: [status, count, ranges, calls, last, nCalls]
    radix,           \* a RadixTree used alone: [tree, last, prev, map, nCalls]
    race,            \* a RadixTree shared by two threads: [heap, threads, acked]
    flush,           \* the flush in progress and the get of a reader: [pc, key, val, sst_id, k_v_iters, got]
    table            \* an SST file written and read alone: [status, entries, file, index, got]

\* the engine and its directory, with what the model remembers about them
engineVars == <<status, walFile, walSynced, sstFiles, wal, memtable, memtable_bytes,
                next_lsn, sst_readers, last, prevMut, shadow, lastPut, onlyPuts,
                damage, hist, nOps, nFaults, nRestarts>>

vars == <<engineVars, region, shards, radix, race, flush, table>>

---------------------------------------------------------------------------
(* Bounds of the model and inputs of the program.                          *)

MaxOps == 3              \* put, delete and get calls in one behaviour
MaxFaults == 1           \* I/O faults in one behaviour
MaxRestarts == 1         \* closes followed by Engine::open in one behaviour
MaxDamagedOps == 2       \* calls made before wal.log is damaged
MemtableMaxBytes == 4    \* Config.memtable_max_bytes

EmptyKey == <<>>
NonEmptyKeys == {<<1>>, <<1, 2>>}
Keys == NonEmptyKeys \cup {EmptyKey}
NonEmptyValues == {<<7>>, <<8>>}
Values == NonEmptyValues \cup {<<>>}
SstIds == {2, 10}        \* values chrono::Utc::now().nanosecond() may return
DamageBytes == {0, 11}   \* byte values a corruption may write

\* the clock reading of a put that does not flush is never used
FirstSstId == CHOOSE id \in SstIds : \A other \in SstIds : id <= other

---------------------------------------------------------------------------
(* Option and Result values.                                               *)

None == <<>>
Some(v) == <<v>>
Ok(opt) == [tag |-> "Ok", opt |-> opt, err |-> ""]
Err(kind) == [tag |-> "Err", opt |-> None, err |-> kind]
ErrWith(kind, v) == [tag |-> "Err", opt |-> Some(v), err |-> kind]
Panic(why) == [tag |-> "Panic", opt |-> None, err |-> why]

---------------------------------------------------------------------------
(* Bytes and files.                                                        *)

Min(a, b) == IF a < b THEN a ELSE b
Max(a, b) == IF a < b THEN b ELSE a

\* A length no file of the model reaches: decoded integers saturate here, so
\* that a corrupted length field reads as "longer than the file".
Huge == 1024 * 1024

RECURSIVE ToBeBytes(_, _)
ToBeBytes(n, w) ==
    IF w = 0 THEN <<>> ELSE Append(ToBeBytes(n \div 256, w - 1), n % 256)

RECURSIVE FromBeBytesAcc(_, _, _)
FromBeBytesAcc(b, i, acc) ==
    IF i > Len(b) THEN acc
    ELSE FromBeBytesAcc(b, i + 1, Min(acc * 256 + b[i], Huge))

FromBeBytes(b) == FromBeBytesAcc(b, 1, 0)

\* read_exact of n bytes at offset pos: None on UnexpectedEof
ReadExact(file, pos, n) ==
    IF pos + n <= Len(file) THEN Some(SubSeq(file, pos + 1, pos + n)) ELSE None

\* positional read of up to n bytes at offset pos into a zeroed buffer
SeekRead(file, pos, n) ==
    [i \in 1..n |-> IF pos + i <= Len(file) THEN file[pos + i] ELSE 0]

\* positional write of bytes at offset off; a gap past the end reads as zeros
SeekWrite(file, bytes, off) ==
    [i \in 1..Max(Len(file), off + Len(bytes)) |->
        IF i > off /\ i <= off + Len(bytes) THEN bytes[i - off]
        ELSE IF i <= Len(file) THEN file[i] ELSE 0]

---------------------------------------------------------------------------
(* radix.rs: the trie.  A tree is a function from the paths of its nodes   *)
(* to their value slots; the root is the empty path.                       *)

BRANCH_CAPACITY == 256

NewTree == [p \in {<<>>} |-> None]

Prefixes(key) == {SubSeq(key, 1, i) : i \in 0..Len(key)}

\* the walk of get and remove: some child slot on the path is null
PathMissing(t, key) == \E p \in Prefixes(key) : p \notin DOMAIN t

\* the descent of insert and put: every null child slot gets a fresh node
Descend(t, key) ==
    [p \in DOMAIN t \cup Prefixes(key) |-> IF p \in DOMAIN t THEN t[p] ELSE None]

TrieGet(t, key) ==
    IF key = <<>> THEN Err("InvalidKey")
    ELSE IF PathMissing(t, key) THEN Ok(None)
    ELSE Ok(t[key])

\* swap of the value slot: the new value is stored whatever was resident
TrieInsert(t, key, value) ==
    IF key = <<>> THEN [tree |-> t, res |-> Err("InvalidKey")]
    ELSE [tree |-> [Descend(t, key) EXCEPT ![key] = Some(value)],
          res |-> IF Descend(t, key)[key] = None THEN Ok(None)
                  ELSE ErrWith("AlreadyWritten", Descend(t, key)[key][1])]

\* a put that hands back the value it replaced
TriePutReturnsPrevious(t, key, value) ==
    IF key = <<>> THEN [tree |-> t, res |-> Err("InvalidKey")]
    ELSE [tree |-> [Descend(t, key) EXCEPT ![key] = Some(value)],
          res |-> Ok(Descend(t, key)[key])]

\* a put that takes the empty key for the root's value slot
TriePutAtRoot(t, key, value) ==
    [tree |-> [Descend(t, key) EXCEPT ![key] = Some(value)], res |-> Ok(Some(value))]

\* compare_exchange(current, new): with one writer it succeeds, and on success
\* it returns the pointer that was written
TriePut(t, key, value) ==
    IF key = <<>> THEN [tree |-> t, res |-> Err("InvalidKey")]
    ELSE [tree |-> [Descend(t, key) EXCEPT ![key] = Some(value)],
          res |-> Ok(Some(value))]

\* a remove that reads the slot and leaves it as it is
TrieRemoveKeepsSlot(t, key) ==
    IF key = <<>> THEN [tree |-> t, res |-> Err("InvalidKey")]
    ELSE IF PathMissing(t, key) THEN [tree |-> t, res |-> Ok(None)]
    ELSE [tree |-> t, res |-> Ok(t[key])]

\* a remove that clears the slot and does not hand back what it held
TrieRemoveReturnsNone(t, key) ==
    IF key = <<>> THEN [tree |-> t, res |-> Err("InvalidKey")]
    ELSE IF PathMissing(t, key) THEN [tree |-> t, res |-> Ok(None)]
    ELSE [tree |-> [t EXCEPT ![key] = None], res |-> Ok(None)]

TrieRemove(t, key) ==
    IF key = <<>> THEN [tree |-> t, res |-> Err("InvalidKey")]
    ELSE IF PathMissing(t, key) THEN [tree |-> t, res |-> Ok(None)]
    ELSE [tree |-> [t EXCEPT ![key] = None], res |-> Ok(t[key])]

\* the children pushed from 0 up to 255
RECURSIVE AscendingSeq(_)
AscendingSeq(S) ==
    IF S = {} THEN <<>>
    ELSE LET m == CHOOSE x \in S : \A y \in S : x <= y
         IN <<m>> \o AscendingSeq(S \ {m})

RECURSIVE DescendingSeq(_)
DescendingSeq(S) ==
    IF S = {} THEN <<>>
    ELSE LET m == CHOOSE x \in S : \A y \in S : y <= x
         IN <<m>> \o DescendingSeq(S \ {m})

\* the indexes below BRANCH_CAPACITY whose child slot of node p is not null
ChildBytes(t, p) ==
    {q[Len(q)] : q \in {r \in DOMAIN t : /\ Len(r) = Len(p) + 1
                                          /\ SubSeq(r, 1, Len(p)) = p
                                          /\ r[Len(r)] < BRANCH_CAPACITY}}

\* the loop of iter_all: pop a node, emit it, push its children from 255 down to 0
RECURSIVE IterLoop(_, _, _)
IterLoop(t, stack, out) ==
    IF stack = <<>> THEN out
    ELSE LET p == stack[Len(stack)]
             rest == SubSeq(stack, 1, Len(stack) - 1)
             out2 == IF t[p] # None THEN Append(out, <<p, t[p][1]>>) ELSE out
             pushed == [i \in 1..Cardinality(ChildBytes(t, p)) |->
                          Append(p, DescendingSeq(ChildBytes(t, p))[i])]
         IN IterLoop(t, rest \o pushed, out2)

IterAll(t) == IterLoop(t, <<(<<>>)>>, <<>>)

---------------------------------------------------------------------------
(* wal.rs: the record format, the writer and the reader.                   *)

WAL_HEADER_LEN == 16
OP_PUT == 1
OP_DELETE == 2

\* crc32fast::Hasher, abstracted to a polynomial checksum over the same bytes:
\* a function of the bytes fed to it that changes whenever one byte changes
RECURSIVE CrcUpdate(_, _, _)
CrcUpdate(h, bytes, i) ==
    IF i > Len(bytes) THEN h
    ELSE CrcUpdate((h * 31 + bytes[i] + 1) % 65521, bytes, i + 1)

Crc32(bytes) == CrcUpdate(0, bytes, 1)

\* WalOp::from(u8)
WalOpFrom(b) == IF b = 1 THEN "Put" ELSE IF b = 2 THEN "Delete" ELSE "Put"

\* the bytes append_record feeds to the hasher: value is an Option<&[u8]>
WalPayload(op, key, value) ==
    <<op>> \o ToBeBytes(Len(key), 4) \o key
    \o (IF value # None THEN ToBeBytes(Len(value[1]), 4) \o value[1]
        ELSE ToBeBytes(0, 4))

\* the buffer append_record builds
WalEncode(lsn, op, key, value) ==
    ToBeBytes(lsn, 8) \o WalPayload(op, key, value)
    \o ToBeBytes(Crc32(WalPayload(op, key, value)), 4)

\* WalWriter::lsn: the end-of-log offset of header bytes 0..8, 16 when unreadable
WalHeaderLsn(file) ==
    IF ReadExact(file, 0, 8) # None THEN FromBeBytes(ReadExact(file, 0, 8)[1])
    ELSE WAL_HEADER_LEN

\* WalWriter::appendable_lsn: the last LSN of header bytes 8..16
WalHeaderAppendableLsn(file) == FromBeBytes(SeekRead(file, 8, 8))

\* WalWriter::open: [file, wal]
WalWriterOpen(file, should_truncate) ==
    IF should_truncate
    THEN [file |-> <<>>,
          wal |-> [lsn |-> WalHeaderLsn(<<>>),
                   appendable_lsn |-> WalHeaderAppendableLsn(<<>>)]]
    ELSE [file |-> file,
          wal |-> [lsn |-> WalHeaderLsn(file),
                   appendable_lsn |-> WalHeaderAppendableLsn(file)]]

\* The faults an append can meet: the write of the record panics (todo!()),
\* the write of header bytes 0..8 returns an error, the write of header bytes
\* 8..16 fails and is ignored, sync_data returns an error.
Faults == {"none", "write", "header0", "header8", "sync"}

\* the end of append_record: self.file.sync_data()?; Ok(())
AppendSync(w, file, synced, offset, fault) ==
    IF fault = "sync"
    THEN [wal |-> w, file |-> file, synced |-> synced, res |-> Err("io"), offset |-> offset]
    ELSE [wal |-> w, file |-> file, synced |-> file, res |-> Ok(None), offset |-> offset]

\* the header writes of append_record: bytes 0..8 with ?, bytes 8..16 with let _ =
AppendHeader(w, file, synced, offset, fault) ==
    IF fault = "header0"
    THEN [wal |-> w, file |-> file, synced |-> synced, res |-> Err("io"), offset |-> offset]
    ELSE IF fault = "header8"
    THEN AppendSync(w, SeekWrite(file, ToBeBytes(w.lsn, 8), 0), synced, offset, fault)
    ELSE AppendSync(w, SeekWrite(SeekWrite(file, ToBeBytes(w.lsn, 8), 0),
                                 ToBeBytes(w.appendable_lsn, 8), 8),
                    synced, offset, fault)

\* the write of buf at offset = self.lsn.fetch_add(buf.len()), then
\* self.appendable_lsn.swap(lsn)
AppendBuf(w, file, synced, lsn, buf, fault) ==
    IF fault = "write"
    THEN [wal |-> [w EXCEPT !.lsn = w.lsn + Len(buf)], file |-> file, synced |-> synced,
          res |-> Panic("not yet implemented"), offset |-> w.lsn]
    ELSE AppendHeader([lsn |-> w.lsn + Len(buf), appendable_lsn |-> lsn],
                      SeekWrite(file, buf, w.lsn), synced, w.lsn, fault)

\* WalWriter::append_record: [wal, file, synced, res, offset]
AppendRecord(w, file, synced, lsn, op, key, value, fault) ==
    AppendBuf(w, file, synced, lsn, WalEncode(lsn, op, key, value), fault)

\* One turn of the loop of read_all at offset pos:
\*   "eof"     the loop breaks on UnexpectedEof (lsn, op)
\*   "error"   read_exact's error is returned with ? (klen, key, vlen, value, crc)
\*   "crc"     the loop breaks on a checksum mismatch
\*   "record"  a record is pushed and the loop goes on at next
NoRecord == [lsn |-> 0, op |-> "Put", key |-> <<>>, value |-> None]

\* the checksum comparison and the push of the record
ReadCrc(file, pos, key_len, val_len, val) ==
    IF (val_len > 0 /\ val = None) \/ ReadExact(file, pos + 17 + key_len + val_len, 4) = None
    THEN [kind |-> "error", rec |-> NoRecord, next |-> pos]
    ELSE IF Crc32(ReadExact(file, pos + 8, 1)[1] \o ReadExact(file, pos + 9, 4)[1]
                  \o ReadExact(file, pos + 13, key_len)[1]
                  \o ReadExact(file, pos + 13 + key_len, 4)[1]
                  \o (IF val # None THEN val[1] ELSE <<>>))
            # FromBeBytes(ReadExact(file, pos + 17 + key_len + val_len, 4)[1])
    THEN [kind |-> "crc", rec |-> NoRecord, next |-> pos]
    ELSE [kind |-> "record",
          rec |-> [lsn |-> FromBeBytes(ReadExact(file, pos, 8)[1]),
                   op |-> WalOpFrom(ReadExact(file, pos + 8, 1)[1][1]),
                   key |-> ReadExact(file, pos + 13, key_len)[1],
                   value |-> val],
          next |-> pos + 21 + key_len + val_len]

\* the value: read only if val_len > 0, None otherwise
ReadValue(file, pos, key_len, val_len) ==
    ReadCrc(file, pos, key_len, val_len,
            IF val_len > 0 THEN ReadExact(file, pos + 17 + key_len, val_len) ELSE None)

\* the key and the value length
ReadKey(file, pos, key_len) ==
    IF ReadExact(file, pos + 13, key_len) = None
       \/ ReadExact(file, pos + 13 + key_len, 4) = None
    THEN [kind |-> "error", rec |-> NoRecord, next |-> pos]
    ELSE ReadValue(file, pos, key_len,
                   FromBeBytes(ReadExact(file, pos + 13 + key_len, 4)[1]))

\* the lsn, the op and the key length
ReadRecord(file, pos) ==
    IF ReadExact(file, pos, 8) = None \/ ReadExact(file, pos + 8, 1) = None
    THEN [kind |-> "eof", rec |-> NoRecord, next |-> pos]
    ELSE IF ReadExact(file, pos + 9, 4) = None
    THEN [kind |-> "error", rec |-> NoRecord, next |-> pos]
    ELSE ReadKey(file, pos, FromBeBytes(ReadExact(file, pos + 9, 4)[1]))

RECURSIVE ReadAllFrom(_, _, _)

\* what the loop does with the outcome r of its turn at pos
ReadAllStep(file, pos, records, r) ==
    IF r.kind = "record" THEN ReadAllFrom(file, r.next, Append(records, r.rec))
    ELSE IF r.kind = "error" THEN [ok |-> FALSE, records |-> records, end |-> pos]
    ELSE [ok |-> TRUE, records |-> records, end |-> pos]

\* the loop of read_all at offset pos
ReadAllFrom(file, pos, records) == ReadAllStep(file, pos, records, ReadRecord(file, pos))

\* WalReader::read_all: ok is FALSE when it returns Err
ReadAll(file) == ReadAllFrom(file, WAL_HEADER_LEN, <<>>)

---------------------------------------------------------------------------
(* sst.rs: the SST writer and reader.                                      *)

SST_FOOTER_LEN == 16

RECURSIVE SstDataBlockBackwards(_, _, _, _)

\* a data block that holds the entries from the last to the first
SstDataBlockBackwards(entries, i, bytes, offsets) ==
    IF i > Len(entries) THEN [bytes |-> bytes, offsets |-> offsets]
    ELSE LET k == entries[Len(entries) + 1 - i][1]
             v == entries[Len(entries) + 1 - i][2]
         IN SstDataBlockBackwards(entries, i + 1,
                bytes \o ToBeBytes(Len(k), 4) \o k \o ToBeBytes(Len(v), 4) \o v,
                Append(offsets, <<k, Len(bytes)>>))

RECURSIVE SstDataBlock(_, _, _, _)
\* the data block and the offsets vector: entries from i on, appended to bytes
SstDataBlock(entries, i, bytes, offsets) ==
    IF i > Len(entries) THEN [bytes |-> bytes, offsets |-> offsets]
    ELSE LET k == entries[i][1]
             v == entries[i][2]
         IN SstDataBlock(entries, i + 1,
                bytes \o ToBeBytes(Len(k), 4) \o k \o ToBeBytes(Len(v), 4) \o v,
                Append(offsets, <<k, Len(bytes)>>))

RECURSIVE SstIndexBlock(_, _)
SstIndexBlock(offsets, i) ==
    IF i > Len(offsets) THEN <<>>
    ELSE ToBeBytes(Len(offsets[i][1]), 4) \o offsets[i][1] \o ToBeBytes(offsets[i][2], 8)
         \o SstIndexBlock(offsets, i + 1)

\* the index block and the footer written after the data block
SstFinish(data) ==
    data.bytes \o SstIndexBlock(data.offsets, 1)
    \o ToBeBytes(Len(data.bytes), 8) \o ToBeBytes(Len(data.offsets), 8)

\* SSTWriter::open (truncate) then write_all: the bytes of the file
SstWriteAll(entries) ==
    SstFinish(SstDataBlock(entries, 1, ToBeBytes(Len(entries), 8), <<>>))

\* BTreeMap::insert
BTreeInsert(index, k, v) ==
    [x \in DOMAIN index \cup {k} |-> IF x = k THEN v ELSE index[x]]

RECURSIVE SstReadIndex(_, _, _, _)

\* one index entry whose key length is key_len: the key and its offset
SstReadIndexEntry(file, pos, n, index, key_len) ==
    IF ReadExact(file, pos + 4, key_len) = None
       \/ ReadExact(file, pos + 4 + key_len, 8) = None
    THEN [ok |-> FALSE, index |-> index]
    ELSE SstReadIndex(file, pos + 12 + key_len, n - 1,
                      BTreeInsert(index, ReadExact(file, pos + 4, key_len)[1],
                                  FromBeBytes(ReadExact(file, pos + 4 + key_len, 8)[1])))

\* the loop of SSTReader::open: n entries left to read at pos; index is the BTreeMap
SstReadIndex(file, pos, n, index) ==
    IF n = 0 THEN [ok |-> TRUE, index |-> index]
    ELSE IF ReadExact(file, pos, 4) = None THEN [ok |-> FALSE, index |-> index]
    ELSE SstReadIndexEntry(file, pos, n, index, FromBeBytes(ReadExact(file, pos, 4)[1]))

\* SSTReader::open: [ok, index]; a file shorter than its footer cannot be opened
SstReaderOpen(file) ==
    IF Len(file) < SST_FOOTER_LEN THEN [ok |-> FALSE, index |-> <<>>]
    ELSE SstReadIndex(file, FromBeBytes(ReadExact(file, Len(file) - 16, 8)[1]),
                      FromBeBytes(ReadExact(file, Len(file) - 8, 8)[1]), <<>>)

\* a value read from where the value length is stored
SstGetValueAtLength(file, offset, klen, vlen) ==
    IF ReadExact(file, offset + 4 + klen, vlen) = None THEN Err("io")
    ELSE Ok(Some(ReadExact(file, offset + 4 + klen, vlen)[1]))

\* the value of the entry at offset, whose key length is klen and value length vlen
SstGetValue(file, offset, klen, vlen) ==
    IF ReadExact(file, offset + 8 + klen, vlen) = None THEN Err("io")
    ELSE Ok(Some(ReadExact(file, offset + 8 + klen, vlen)[1]))

\* the key of the entry at offset (read, not compared) and the value length
SstGetKey(file, offset, klen) ==
    IF ReadExact(file, offset + 4, klen) = None
       \/ ReadExact(file, offset + 4 + klen, 4) = None
    THEN Err("io")
    ELSE SstGetValue(file, offset, klen,
                     FromBeBytes(ReadExact(file, offset + 4 + klen, 4)[1]))

\* SSTReader::get on the reader's index and the bytes now in its file
SstGet(index, file, key) ==
    IF key \notin DOMAIN index THEN Ok(None)
    ELSE IF ReadExact(file, index[key], 4) = None THEN Err("io")
    ELSE SstGetKey(file, index[key], FromBeBytes(ReadExact(file, index[key], 4)[1]))

\* format!("{}", sst_id): the decimal digits as character codes
RECURSIVE Digits(_)
Digits(n) == IF n < 10 THEN <<48 + n>> ELSE Append(Digits(n \div 10), 48 + (n % 10))

\* the part of the file name sst-<id>.dat that differs between two ids
SstName(id) == Digits(id) \o <<46>>

\* Ord of two paths in one directory: bytewise order of the file names
RECURSIVE SeqLess(_, _, _)
SeqLess(a, b, i) ==
    IF i > Len(a) THEN i <= Len(b)
    ELSE IF i > Len(b) THEN FALSE
    ELSE IF a[i] # b[i] THEN a[i] < b[i]
    ELSE SeqLess(a, b, i + 1)

PathLess(id1, id2) == SeqLess(SstName(id1), SstName(id2), 1)

\* sst_paths.sort()
RECURSIVE SortedPaths(_)
SortedPaths(ids) ==
    IF ids = {} THEN <<>>
    ELSE LET m == CHOOSE x \in ids : \A y \in ids \ {x} : PathLess(x, y)
         IN <<m>> \o SortedPaths(ids \ {m})

---------------------------------------------------------------------------
(* engine.rs.  An engine value e bundles the Engine's fields with the      *)
(* files of its directory:                                                 *)
(*   [wal, memtable, memtable_bytes, next_lsn, sst_readers,                *)
(*    walFile, walSynced, sstFiles]                                        *)

\* what flush_memtable leaves once the bytes sst are in sst-<sst_id>.dat and
\* wal.log has been reopened with truncate
Flushed(e, sst_id, sst, w) ==
    [e EXCEPT !.sstFiles = [i \in DOMAIN e.sstFiles \cup {sst_id} |->
                               IF i = sst_id THEN sst ELSE e.sstFiles[i]],
              !.memtable = NewTree,
              !.memtable_bytes = 0,
              !.walFile = w.file,
              !.wal = w.wal,
              !.sst_readers = Append(e.sst_readers,
                                     [id |-> sst_id, index |-> SstReaderOpen(sst).index])]

\* a flush that reopens wal.log without truncating it
FlushMemtableKeepsWal(e, sst_id) ==
    Flushed(e, sst_id, SstWriteAll(IterAll(e.memtable)), WalWriterOpen(e.walFile, FALSE))

\* Engine::flush_memtable with the clock reading sst_id
FlushMemtable(e, sst_id) ==
    Flushed(e, sst_id, SstWriteAll(IterAll(e.memtable)), WalWriterOpen(e.walFile, TRUE))

RECURSIVE ProbeSsts(_, _, _)

\* what the loop does with reader i's answer r
ProbeStep(e, key, i, r) ==
    IF r.tag = "Err" THEN r
    ELSE IF r.opt # None THEN r
    ELSE ProbeSsts(e, key, i - 1)

\* the loop of Engine::get over sst_readers.iter_mut().rev(), at reader i
ProbeSsts(e, key, i) ==
    IF i = 0 THEN Ok(None)
    ELSE ProbeStep(e, key, i,
                   SstGet(e.sst_readers[i].index, e.sstFiles[e.sst_readers[i].id], key))

\* the memtable's answer, then the SST readers
EngineGetFrom(e, key, result) ==
    IF result.tag = "Err" THEN Err("InvalidInput")
    ELSE IF result.opt # None THEN result
    ELSE ProbeSsts(e, key, Len(e.sst_readers))

\* Engine::get
EngineGet(e, key) == EngineGetFrom(e, key, TrieGet(e.memtable, key))

\* a threshold that the write has to exceed
FlushNeededAbove(e, key, val) ==
    e.memtable_bytes + Len(key) + Len(val) > MemtableMaxBytes

FlushNeeded(e, key, val) ==
    e.memtable_bytes + Len(key) + Len(val) >= MemtableMaxBytes

\* the end of put and delete: p is the memtable's result, a the append's
Logged(e, flushed, bytes, p, a) ==
    [e |-> [e EXCEPT !.memtable = p.tree,
                     !.memtable_bytes = e.memtable_bytes + bytes,
                     !.next_lsn = e.next_lsn + 1,
                     !.wal = a.wal,
                     !.walFile = a.file,
                     !.walSynced = a.synced],
     res |-> IF a.res.tag = "Ok" THEN p.res ELSE a.res,
     flushed |-> flushed, lsn |-> e.next_lsn, offset |-> a.offset, appended |-> TRUE]

NotLogged(e, flushed) ==
    [e |-> e, res |-> Err("Other"), flushed |-> flushed, lsn |-> 0,
     offset |-> 0, appended |-> FALSE]

\* put after the flush check: memtable.put, then wal.append_put
PutFlushed(e, flushed, key, val, fault) ==
    IF TriePut(e.memtable, key, val).res.tag = "Err" THEN NotLogged(e, flushed)
    ELSE Logged(e, flushed, Len(key) + Len(val), TriePut(e.memtable, key, val),
                AppendRecord(e.wal, e.walFile, e.walSynced, e.next_lsn, OP_PUT,
                             key, Some(val), fault))

\* Engine::put: [e, res, flushed, lsn, offset, appended]
EnginePut(e, key, val, sst_id, fault) ==
    IF FlushNeeded(e, key, val)
    THEN PutFlushed(FlushMemtable(e, sst_id), TRUE, key, val, fault)
    ELSE PutFlushed(e, FALSE, key, val, fault)

\* Engine::delete: [e, res, flushed, lsn, offset, appended]
EngineDelete(e, key, fault) ==
    IF TrieRemove(e.memtable, key).res.tag = "Err" THEN NotLogged(e, FALSE)
    ELSE Logged(e, FALSE, 0, TrieRemove(e.memtable, key),
                AppendRecord(e.wal, e.walFile, e.walSynced, e.next_lsn, OP_DELETE,
                             key, None, fault))

\* where a stable sort by lsn puts r among the sorted records s that came before it
InsertByLsn(s, r) ==
    SubSeq(s, 1, Cardinality({i \in 1..Len(s) : s[i].lsn <= r.lsn})) \o <<r>>
    \o SubSeq(s, Cardinality({i \in 1..Len(s) : s[i].lsn <= r.lsn}) + 1, Len(s))

\* wal_records.sort_by_key(|w| w.lsn): a stable sort
RECURSIVE SortByLsn(_)
SortByLsn(records) ==
    IF records = <<>> THEN <<>>
    ELSE InsertByLsn(SortByLsn(SubSeq(records, 1, Len(records) - 1)),
                     records[Len(records)])

\* a replay loop that skips Delete records
RECURSIVE ReplayLoopSkipsDelete(_, _, _)
ReplayLoopSkipsDelete(records, i, tree) ==
    IF i > Len(records) THEN [tree |-> tree, res |-> Ok(None)]
    ELSE LET record == records[i]
         IN IF record.op = "Put"
            THEN IF record.value = None
                 THEN [tree |-> tree, res |-> Panic("unwrap on None")]
                 ELSE LET p == TriePut(tree, record.key, record.value[1])
                      IN IF p.res.tag = "Err"
                         THEN [tree |-> tree, res |-> Err("memtable insertion failed")]
                         ELSE ReplayLoopSkipsDelete(records, i + 1, p.tree)
            ELSE ReplayLoopSkipsDelete(records, i + 1, tree)

\* the loop of Engine::replay_records over the sorted records, at record i
RECURSIVE ReplayLoop(_, _, _)
ReplayLoop(records, i, tree) ==
    IF i > Len(records) THEN [tree |-> tree, res |-> Ok(None)]
    ELSE LET record == records[i]
         IN IF record.op = "Put"
            THEN IF record.value = None
                 THEN [tree |-> tree, res |-> Panic("unwrap on None")]
                 ELSE LET p == TriePut(tree, record.key, record.value[1])
                      IN IF p.res.tag = "Err"
                         THEN [tree |-> tree, res |-> Err("memtable insertion failed")]
                         ELSE ReplayLoop(records, i + 1, p.tree)
            ELSE LET p == TrieRemove(tree, record.key)
                 IN IF p.res.tag = "Err"
                    THEN [tree |-> tree, res |-> Err("memtable deletion failed")]
                    ELSE ReplayLoop(records, i + 1, p.tree)

\* replay of what read_all returned
Replay(r, tree) ==
    IF ~r.ok THEN [tree |-> tree, res |-> Panic("reading wal records failed")]
    ELSE ReplayLoop(SortByLsn(r.records), 1, tree)

\* Engine::replay_records: [tree, res]
ReplayRecords(file, tree) ==
    IF Len(file) < 9 THEN [tree |-> tree, res |-> Err("invalid wal data")]
    ELSE Replay(ReadAll(file), tree)

\* the readers Engine::open builds from the sorted paths: [ok, readers]
RECURSIVE OpenReaders(_, _, _, _)
OpenReaders(files, paths, i, readers) ==
    IF i > Len(paths) THEN [ok |-> TRUE, readers |-> readers]
    ELSE LET r == SstReaderOpen(files[paths[i]])
         IN IF ~r.ok THEN [ok |-> FALSE, readers |-> readers]
            ELSE OpenReaders(files, paths, i + 1,
                             Append(readers, [id |-> paths[i], index |-> r.index]))

\* the Engine value open builds from the writer w, the readers rd and the replay
Opened(w, wal_synced, sst_files, rd, replay) ==
    [e |-> [wal |-> w.wal,
            memtable |-> replay.tree,
            memtable_bytes |-> 0,
            next_lsn |-> w.wal.appendable_lsn + 1,
            sst_readers |-> rd.readers,
            walFile |-> w.file,
            walSynced |-> wal_synced,
            sstFiles |-> sst_files],
     res |-> IF ~rd.ok THEN Err("io")
             ELSE IF replay.res.tag = "Panic" THEN replay.res
             ELSE Ok(None)]

\* Engine::open on the files of the directory: [e, res]
EngineOpen(wal_file, wal_synced, sst_files) ==
    Opened(WalWriterOpen(wal_file, FALSE), wal_synced, sst_files,
           OpenReaders(sst_files, SortedPaths(DOMAIN sst_files), 1, <<>>),
           ReplayRecords(wal_file, NewTree))

---------------------------------------------------------------------------
(* The state machine: one process at a time owns the directory.            *)

Cur == [wal |-> wal, memtable |-> memtable, memtable_bytes |-> memtable_bytes,
        next_lsn |-> next_lsn, sst_readers |-> sst_readers,
        walFile |-> walFile, walSynced |-> walSynced, sstFiles |-> sstFiles]

NoFiles == [i \in {} |-> <<>>]

SetEngine(e) ==
    /\ wal' = e.wal
    /\ memtable' = e.memtable
    /\ memtable_bytes' = e.memtable_bytes
    /\ next_lsn' = e.next_lsn
    /\ sst_readers' = e.sst_readers
    /\ walFile' = e.walFile
    /\ walSynced' = e.walSynced
    /\ sstFiles' = e.sstFiles

\* no Engine value exists: only the files of e remain
SetFilesOnly(e) ==
    /\ wal' = [lsn |-> 0, appendable_lsn |-> 0]
    /\ memtable' = NewTree
    /\ memtable_bytes' = 0
    /\ next_lsn' = 0
    /\ sst_readers' = <<>>
    /\ walFile' = e.walFile
    /\ walSynced' = e.walSynced
    /\ sstFiles' = e.sstFiles

Call(op, key, val, r, before, slot) ==
    [op |-> op, key |-> key, val |-> val, res |-> r.res, flushed |-> r.flushed,
     lsn |-> r.lsn, offset |-> r.offset, appended |-> r.appended,
     getBefore |-> before, slotBefore |-> slot]

NoCall(op, res) ==
    [op |-> op, key |-> <<>>, val |-> <<>>, res |-> res, flushed |-> FALSE,
     lsn |-> 0, offset |-> 0, appended |-> FALSE,
     getBefore |-> Ok(None), slotBefore |-> Ok(None)]

NoDamage == [kind |-> "none", fresh |-> FALSE, before |-> <<>>, idx |-> 0, field |-> "none"]

NothingPut == [k \in NonEmptyKeys |-> None]

Mut(op, key, res) == [op |-> op, key |-> key, ok |-> res.tag = "Ok"]

\* the two most recent mutating calls, newest first
Recent(m, muts) == IF muts = <<>> THEN <<m>> ELSE <<m, muts[1]>>

Remember(f, key, opt) == IF key \in DOMAIN f THEN [f EXCEPT ![key] = opt] ELSE f

\* no ShardManager has been built
NoShards ==
    [status |-> "none", count |-> 0, ranges |-> <<>>, calls |-> <<>>,
     last |-> [op |-> "none", key |-> <<>>, res |-> Ok(None)], nCalls |-> 0]

\* RadixTree::new with no call made; map is the finite map the calls describe
NewRadix ==
    [tree |-> NewTree,
     last |-> [op |-> "none", key |-> <<>>, val |-> <<>>, res |-> Ok(None), out |-> <<>>],
     prev |-> [op |-> "none", key |-> <<>>, res |-> Ok(None)],
     map |-> {}, nCalls |-> 0]

\* Node::new: every child slot null, the value slot null
NewNode == [children |-> [b \in {} |-> 0], value |-> None]

Threads == {1, 2}

\* a thread that has not called the tree
Idle ==
    [pc |-> "idle", op |-> "none", key |-> <<>>, val |-> <<>>, i |-> 0, curr |-> 0,
     seen |-> None, res |-> Ok(None), adopted |-> FALSE, calls |-> 0]

\* RadixTree::new shared by the threads: the heap holds the root, node 1
\* acked is, for each node, the value slot as the calls that returned Ok leave it
NewRace ==
    [heap |-> <<NewNode>>, threads |-> [t \in Threads |-> Idle], acked |-> <<None>>]

\* no SST file has been written
NoSst ==
    [status |-> "none", entries |-> <<>>, file |-> <<>>, index |-> <<>>,
     got |-> [key |-> <<>>, res |-> Ok(None), called |-> FALSE]]

\* no flush is in progress and no reader has called get
NoFlush ==
    [pc |-> "idle", key |-> <<>>, val |-> <<>>, sst_id |-> 0, k_v_iters |-> <<>>,
     got |-> [pc |-> "none", key |-> <<>>, res |-> Ok(None)]]

\* Region::new: nothing committed, no command decoded yet
NewRegion ==
    [status |-> "up", committed |-> <<>>,
     last |-> [data |-> <<>>, res |-> Ok(None), by |-> "none"], nEntries |-> 0]

\* created: the ids of the SST files in the order flush_memtable last wrote them;
\* lsn: the greatest LSN of a record whose append returned Ok;
\* lsnBefore: the same as of the last Engine::open;
\* crashed: a process ended in the middle of a flush;
\* acked: every put and delete so far was a put that returned Ok
NoHistory == [created |-> <<>>, lsn |-> 0, lsnBefore |-> 0, crashed |-> FALSE, acked |-> TRUE]

Wrote(created, sst_id) == Append(SelectSeq(created, LAMBDA id : id # sst_id), sst_id)

\* the history after the call that returned r
Record(h, r, sst_id) ==
    [h EXCEPT !.created = IF r.flushed THEN Wrote(h.created, sst_id) ELSE h.created,
              !.lsn = IF r.appended /\ r.res.tag = "Ok" THEN Max(h.lsn, r.lsn) ELSE h.lsn,
              !.acked = h.acked /\ r.res.tag = "Ok"]

Init ==
    LET o == EngineOpen(<<>>, <<>>, NoFiles)
    IN /\ status = "up"
       /\ wal = o.e.wal
       /\ memtable = o.e.memtable
       /\ memtable_bytes = o.e.memtable_bytes
       /\ next_lsn = o.e.next_lsn
       /\ sst_readers = o.e.sst_readers
       /\ walFile = o.e.walFile
       /\ walSynced = o.e.walSynced
       /\ sstFiles = o.e.sstFiles
       /\ last = NoCall("open", o.res)
       /\ prevMut = <<>>
       /\ shadow = NothingPut
       /\ lastPut = NothingPut
       /\ onlyPuts = TRUE
       /\ damage = NoDamage
       /\ hist = NoHistory
       /\ nOps = 0
       /\ nFaults = 0
       /\ nRestarts = 0
       /\ region = NewRegion
       /\ shards = NoShards
       /\ radix = NewRadix
       /\ race = NewRace
       /\ flush = NoFlush
       /\ table = NoSst

\* a call that panicked took the process down
AfterCall(r) ==
    IF r.res.tag = "Panic"
    THEN status' = "down" /\ SetFilesOnly(r.e)
    ELSE status' = "up" /\ SetEngine(r.e)

Put(key, val, sst_id, fault) ==
    /\ status = "up"
    /\ nOps < MaxOps
    /\ fault # "none" => (key # <<>> /\ nFaults < MaxFaults)
    /\ FlushNeeded(Cur, key, val) \/ sst_id = FirstSstId
    /\ \E r \in {EnginePut(Cur, key, val, sst_id, fault)} :
          /\ AfterCall(r)
          /\ last' = Call("put", key, val, r, EngineGet(Cur, key), TrieGet(memtable, key))
          /\ prevMut' = Recent(Mut("put", key, r.res), prevMut)
          /\ shadow' = Remember(shadow, key, IF r.res.tag = "Ok" THEN Some(val) ELSE None)
          /\ lastPut' = Remember(lastPut, key, IF r.res.tag = "Ok" THEN Some(val) ELSE lastPut[key])
          /\ onlyPuts' = (onlyPuts /\ r.res.tag = "Ok" /\ val # <<>>)
          /\ hist' = Record(hist, r, sst_id)
    /\ damage' = [damage EXCEPT !.fresh = FALSE]
    /\ nOps' = nOps + 1
    /\ nFaults' = IF fault # "none" THEN nFaults + 1 ELSE nFaults
    /\ UNCHANGED <<nRestarts, region, shards, radix, race, flush, table>>

Delete(key, fault) ==
    /\ status = "up"
    /\ nOps < MaxOps
    /\ fault # "none" => (key # <<>> /\ nFaults < MaxFaults)
    /\ \E r \in {EngineDelete(Cur, key, fault)} :
          /\ AfterCall(r)
          /\ last' = Call("delete", key, <<>>, r, EngineGet(Cur, key), TrieGet(memtable, key))
          /\ prevMut' = Recent(Mut("delete", key, r.res), prevMut)
          /\ hist' = [Record(hist, r, FirstSstId) EXCEPT !.acked = FALSE]
    /\ shadow' = Remember(shadow, key, None)
    /\ onlyPuts' = FALSE
    /\ damage' = [damage EXCEPT !.fresh = FALSE]
    /\ nOps' = nOps + 1
    /\ nFaults' = IF fault # "none" THEN nFaults + 1 ELSE nFaults
    /\ UNCHANGED <<lastPut, nRestarts, region, shards, radix, race, flush, table>>

Get(key) ==
    /\ status = "up"
    /\ nOps < MaxOps
    /\ \E got \in {EngineGet(Cur, key)} :
          last' = Call("get", key, <<>>,
                       [res |-> got, flushed |-> FALSE, lsn |-> 0,
                        offset |-> 0, appended |-> FALSE],
                       got, TrieGet(memtable, key))
    /\ UNCHANGED <<status, walFile, walSynced, sstFiles, wal, memtable, memtable_bytes,
                   next_lsn, sst_readers, prevMut, shadow, lastPut, onlyPuts,
                   damage, hist, nFaults, nRestarts, region, shards, radix, race, flush, table>>
    /\ nOps' = nOps + 1

\* the Engine value is dropped; what was written stays in the files
Close ==
    /\ status = "up"
    /\ nRestarts < MaxRestarts
    /\ status' = "down"
    /\ SetFilesOnly(Cur)
    /\ last' = NoCall("close", Ok(None))
    /\ prevMut' = <<>>
    /\ shadow' = NothingPut
    /\ UNCHANGED <<lastPut, onlyPuts, damage, hist, nOps, nFaults, nRestarts, region, shards, radix, race, flush, table>>

Open ==
    /\ status = "down"
    /\ nRestarts < MaxRestarts
    /\ \E o \in {EngineOpen(walFile, walSynced, sstFiles)} :
          /\ IF o.res.tag = "Ok"
             THEN status' = "up" /\ SetEngine(o.e)
             ELSE status' = "down" /\ SetFilesOnly(Cur)
          /\ last' = NoCall("open", o.res)
    /\ prevMut' = <<>>
    /\ shadow' = NothingPut
    /\ nRestarts' = nRestarts + 1
    /\ hist' = [hist EXCEPT !.lsnBefore = hist.lsn]
    /\ UNCHANGED <<lastPut, onlyPuts, damage, nOps, nFaults, region, shards, radix, race, flush, table>>

\* the calls of a run in which no I/O fails
Next ==
    \/ \E key \in Keys, val \in Values, sst_id \in SstIds : Put(key, val, sst_id, "none")
    \/ \E key \in Keys : Delete(key, "none")
    \/ \E key \in Keys : Get(key)
    \/ Close
    \/ Open

Spec == Init /\ [][Next]_vars

\* the same calls, with appends that meet an I/O fault
NextFault ==
    \/ Next
    \/ \E key \in Keys, val \in Values, sst_id \in SstIds, fault \in Faults \ {"none"} :
          Put(key, val, sst_id, fault)
    \/ \E key \in Keys, fault \in Faults \ {"none"} : Delete(key, fault)

SpecFault == Init /\ [][NextFault]_vars

---------------------------------------------------------------------------
(* Damage to wal.log while no process owns the directory: a byte of the    *)
(* record area changed on the medium, or the tail of the last record lost  *)
(* by a crash in the middle of append_record.                              *)

\* what the engine can have appended: the records are found in the file by
\* comparing its bytes with what append_record writes
Appendable ==
    {[op |-> OP_PUT, key |-> k, value |-> Some(v)] : k \in NonEmptyKeys, v \in Values}
    \cup {[op |-> OP_DELETE, key |-> k, value |-> None] : k \in NonEmptyKeys}

RecordBody(c) ==
    WalPayload(c.op, c.key, c.value) \o ToBeBytes(Crc32(WalPayload(c.op, c.key, c.value)), 4)

RECURSIVE WrittenFrom(_, _)

\* the record at pos whose op, key and value are those of c
WrittenRecord(file, pos, c) ==
    <<[lsn |-> FromBeBytes(ReadExact(file, pos, 8)[1]), op |-> c.op, key |-> c.key,
       value |-> c.value, start |-> pos, end |-> pos + 8 + Len(RecordBody(c))]>>
    \o WrittenFrom(file, pos + 8 + Len(RecordBody(c)))

WrittenMatch(file, pos, m) ==
    IF m = {} THEN <<>> ELSE WrittenRecord(file, pos, CHOOSE x \in m : TRUE)

WrittenFrom(file, pos) ==
    WrittenMatch(file, pos,
                 {c \in Appendable :
                     /\ ReadExact(file, pos, 8) # None
                     /\ ReadExact(file, pos + 8, Len(RecordBody(c))) = Some(RecordBody(c))})

\* the intact records at the head of the record area of a wal.log
Written(file) == WrittenFrom(file, WAL_HEADER_LEN)

\* the field of a record that holds the byte at offset off of the record
FieldAt(off, klen, vlen) ==
    IF off < 8 THEN "lsn"
    ELSE IF off < 9 THEN "op"
    ELSE IF off < 13 THEN "klen"
    ELSE IF off < 13 + klen THEN "key"
    ELSE IF off < 17 + klen THEN "vlen"
    ELSE IF off < 17 + klen + vlen THEN "value"
    ELSE "crc"

ValueLen(rec) == IF rec.value = None THEN 0 ELSE Len(rec.value[1])

Damaged(kind, records, i, pos) ==
    [kind |-> kind, fresh |-> TRUE, before |-> records, idx |-> i,
     field |-> FieldAt(pos - records[i].start, Len(records[i].key), ValueLen(records[i]))]

CorruptWal(pos, b) ==
    /\ status = "down"
    /\ damage.kind = "none"
    /\ nOps <= MaxDamagedOps
    /\ pos < Len(walFile)
    /\ walFile[pos + 1] # b
    /\ \E records \in {Written(walFile)} :
          \E i \in 1..Len(records) :
             /\ records[i].start <= pos
             /\ pos < records[i].end
             /\ damage' = Damaged("corrupt", records, i, pos)
    /\ walFile' = [walFile EXCEPT ![pos + 1] = b]
    /\ walSynced' = walFile'
    /\ last' = NoCall("damage", Ok(None))
    /\ UNCHANGED <<status, sstFiles, wal, memtable, memtable_bytes, next_lsn, sst_readers,
                   prevMut, shadow, lastPut, onlyPuts, hist, nOps, nFaults, nRestarts,
                   region, shards, radix, race, flush, table>>

TearWal(len) ==
    /\ status = "down"
    /\ damage.kind = "none"
    /\ nOps <= MaxDamagedOps
    /\ \E records \in {Written(walFile)} :
          /\ records # <<>>
          /\ records[Len(records)].end = Len(walFile)
          /\ records[Len(records)].start < len
          /\ len < Len(walFile)
          /\ damage' = Damaged("torn", records, Len(records), len)
    /\ walFile' = SubSeq(walFile, 1, len)
    /\ walSynced' = walFile'
    /\ last' = NoCall("damage", Ok(None))
    /\ UNCHANGED <<status, sstFiles, wal, memtable, memtable_bytes, next_lsn, sst_readers,
                   prevMut, shadow, lastPut, onlyPuts, hist, nOps, nFaults, nRestarts,
                   region, shards, radix, race, flush, table>>

NextDamage ==
    \/ Next
    \/ \E pos \in WAL_HEADER_LEN..(Len(walFile) - 1), b \in DamageBytes : CorruptWal(pos, b)
    \/ \E len \in WAL_HEADER_LEN..(Len(walFile) - 1) : TearWal(len)

SpecDamage == Init /\ [][NextDamage]_vars

---------------------------------------------------------------------------
(* flush_memtable stopped on its way: by an I/O error that `?` returns to  *)
(* the caller of put, or by the end of the process.                        *)

SST_COUNT_LEN == 8

\* the directory once sst-<sst_id>.dat holds bytes
WithSst(files, sst_id, bytes) ==
    [i \in DOMAIN files \cup {sst_id} |-> IF i = sst_id THEN bytes ELSE files[i]]

\* where write_all can have stopped: the file is created and empty, holds the
\* entry count, holds the data and index blocks without the footer, or lacks
\* the footer's last byte
SstCuts == {"created", "count", "blocks", "torn"}

\* the bytes of sst in the file when write_all stopped at cut
SstCut(sst, cut) ==
    IF cut = "created" THEN <<>>
    ELSE IF cut = "count" THEN SubSeq(sst, 1, SST_COUNT_LEN)
    ELSE IF cut = "blocks" THEN SubSeq(sst, 1, Len(sst) - SST_FOOTER_LEN)
    ELSE IF cut = "torn" THEN SubSeq(sst, 1, Len(sst) - 1)
    ELSE sst

\* the step of flush_memtable that returns the error
FlushFaults == {"create", "write", "truncate", "reader"}

\* the engine after flush_memtable returned Err at step, the file cut at cut
\* if the step was a write
FlushFailed(e, sst_id, sst, step, cut) ==
    IF step = "create" THEN e
    ELSE IF step = "write"
    THEN [e EXCEPT !.sstFiles = WithSst(e.sstFiles, sst_id, SstCut(sst, cut))]
    ELSE IF step = "truncate"
    THEN [e EXCEPT !.sstFiles = WithSst(e.sstFiles, sst_id, sst),
                   !.memtable = NewTree,
                   !.memtable_bytes = 0]
    ELSE [Flushed(e, sst_id, sst, WalWriterOpen(e.walFile, TRUE))
             EXCEPT !.sst_readers = e.sst_readers]

\* what put returns when its flush failed
FlushError ==
    [res |-> Err("flush"), flushed |-> FALSE, lsn |-> 0, offset |-> 0, appended |-> FALSE]

\* Engine::put whose flush_memtable fails at step
PutFlushFails(key, val, sst_id, step, cut) ==
    /\ status = "up"
    /\ nOps < MaxOps
    /\ nFaults < MaxFaults
    /\ FlushNeeded(Cur, key, val)
    /\ step # "write" => cut = "created"
    /\ SetEngine(FlushFailed(Cur, sst_id, SstWriteAll(IterAll(memtable)), step, cut))
    /\ status' = "up"
    /\ last' = Call("put", key, val, FlushError, EngineGet(Cur, key), TrieGet(memtable, key))
    /\ prevMut' = Recent(Mut("put", key, FlushError.res), prevMut)
    /\ shadow' = Remember(shadow, key, None)
    /\ onlyPuts' = FALSE
    /\ hist' = [hist EXCEPT !.created = IF step = "create" THEN hist.created
                                        ELSE Wrote(hist.created, sst_id),
                            !.acked = FALSE]
    /\ damage' = [damage EXCEPT !.fresh = FALSE]
    /\ nOps' = nOps + 1
    /\ nFaults' = nFaults + 1
    /\ UNCHANGED <<lastPut, nRestarts, region, shards, radix, race, flush, table>>

\* the files a flush leaves when the process ends in it: the SST, which is
\* never synced, is on the medium up to cut or as a whole, and wal.log is
\* truncated or not
FlushCrashed(e, sst_id, sst, truncated, cut) ==
    [e EXCEPT !.sstFiles = WithSst(e.sstFiles, sst_id, SstCut(sst, cut)),
              !.walFile = IF truncated THEN WalWriterOpen(e.walFile, TRUE).file
                          ELSE e.walFile,
              !.walSynced = IF truncated THEN WalWriterOpen(e.walFile, TRUE).file
                            ELSE e.walSynced]

\* the process ends while Engine::put runs flush_memtable
PutCrashesInFlush(key, val, sst_id, truncated, cut) ==
    /\ status = "up"
    /\ nOps < MaxOps
    /\ FlushNeeded(Cur, key, val)
    /\ SetFilesOnly(FlushCrashed(Cur, sst_id, SstWriteAll(IterAll(memtable)), truncated, cut))
    /\ status' = "down"
    /\ last' = NoCall("crash", Ok(None))
    /\ prevMut' = <<>>
    /\ shadow' = NothingPut
    /\ hist' = [hist EXCEPT !.created = Wrote(hist.created, sst_id), !.crashed = TRUE]
    /\ damage' = [damage EXCEPT !.fresh = FALSE]
    /\ nOps' = nOps + 1
    /\ UNCHANGED <<lastPut, onlyPuts, nFaults, nRestarts, region, shards, radix, race, flush, table>>

NextFlush ==
    \/ Next
    \/ \E key \in Keys, val \in Values, sst_id \in SstIds, step \in FlushFaults,
          cut \in SstCuts : PutFlushFails(key, val, sst_id, step, cut)
    \/ \E key \in Keys, val \in Values, sst_id \in SstIds, truncated \in BOOLEAN,
          cut \in SstCuts \cup {"complete"} :
             PutCrashesInFlush(key, val, sst_id, truncated, cut)

SpecFlush == Init /\ [][NextFlush]_vars

---------------------------------------------------------------------------
(* raft-store: the command codec (command.rs) and the Region that applies  *)
(* the committed entries of its raft log (region.rs).                      *)

MaxEntries == 2          \* entries committed to the region's log in one behaviour

TAG_PUT == 1
TAG_DELETE == 2
Tags == {0, TAG_PUT, TAG_DELETE, 3}   \* first bytes an entry may carry

CmdPut(key, val) == [op |-> "Put", key |-> key, val |-> val]
CmdDelete(key) == [op |-> "Delete", key |-> key, val |-> <<>>]

Commands == {CmdPut(k, v) : k \in Keys, v \in Values} \cup {CmdDelete(k) : k \in Keys}

\* an encoder that leaves out the length of a Put's value
CommandEncodeNoValueLength(cmd) ==
    IF cmd.op = "Put"
    THEN <<TAG_PUT>> \o ToBeBytes(Len(cmd.key), 4) \o cmd.key \o cmd.val
    ELSE <<TAG_DELETE>> \o ToBeBytes(Len(cmd.key), 4) \o cmd.key

\* Command::encode
CommandEncode(cmd) ==
    IF cmd.op = "Put"
    THEN <<TAG_PUT>> \o ToBeBytes(Len(cmd.key), 4) \o cmd.key
         \o ToBeBytes(Len(cmd.val), 4) \o cmd.val
    ELSE <<TAG_DELETE>> \o ToBeBytes(Len(cmd.key), 4) \o cmd.key

\* Buf::get_u32 then Buf::copy_to_slice at 0-based position pos: the slice and
\* the position behind it, or None where the buffer is too short and Buf panics
GetSlice(data, pos) ==
    IF ReadExact(data, pos, 4) = None THEN None
    ELSE IF ReadExact(data, pos + 4, FromBeBytes(ReadExact(data, pos, 4)[1])) = None THEN None
    ELSE Some([bytes |-> ReadExact(data, pos + 4, FromBeBytes(ReadExact(data, pos, 4)[1]))[1],
               end |-> pos + 4 + FromBeBytes(ReadExact(data, pos, 4)[1])])

\* the match on the tag, once the key has been read
DecodeTag(data, tag, key) ==
    IF tag = TAG_PUT
    THEN IF GetSlice(data, key.end) = None THEN Panic("buffer too short")
         ELSE Ok(Some(CmdPut(key.bytes, GetSlice(data, key.end)[1].bytes)))
    ELSE IF tag = TAG_DELETE THEN Ok(Some(CmdDelete(key.bytes)))
    ELSE Panic("not yet implemented")

\* Command::decode
CommandDecode(data) ==
    IF data = <<>> THEN Panic("buffer too short")
    ELSE IF GetSlice(data, 1) = None THEN Panic("buffer too short")
    ELSE DecodeTag(data, data[1], GetSlice(data, 1)[1])

Retag(data, tag) == <<tag>> \o SubSeq(data, 2, Len(data))

\* the bytes a committed entry may carry: the encoded commands, the same
\* under another first byte, the lone first bytes, and no bytes at all
EntryData ==
    {Retag(CommandEncode(cmd), tag) : cmd \in Commands, tag \in Tags}
    \cup {<<tag>> : tag \in Tags} \cup {<<>>}

RECURSIVE ApplyEntries(_, _, _)

\* what the loop does with the decoded entry i
ApplyEntry(r, entries, i, res) ==
    IF res.tag = "Panic"
    THEN [r EXCEPT !.status = "down",
                   !.last = [data |-> entries[i], res |-> res, by |-> "on_ready"]]
    ELSE ApplyEntries([r EXCEPT !.last = [data |-> entries[i], res |-> res,
                                          by |-> "on_ready"]],
                      entries, i + 1)

\* the loop of Region::on_ready over ready.committed_entries(), at entry i
ApplyEntries(r, entries, i) ==
    IF i > Len(entries) THEN [r EXCEPT !.committed = <<>>]
    ELSE IF entries[i] = <<>> THEN ApplyEntries(r, entries, i + 1)
    ELSE ApplyEntry(r, entries, i, CommandDecode(entries[i]))

\* Region::propose: the single voter commits what it proposes
Propose(cmd) ==
    /\ region.status = "up"
    /\ region.nEntries < MaxEntries
    /\ region' = [region EXCEPT !.committed = Append(region.committed, CommandEncode(cmd)),
                                !.nEntries = region.nEntries + 1]
    /\ UNCHANGED <<engineVars, shards, radix, race, flush, table>>

\* an entry the raft group committed that this node did not encode
Replicate(data) ==
    /\ region.status = "up"
    /\ region.nEntries < MaxEntries
    /\ region' = [region EXCEPT !.committed = Append(region.committed, data),
                                !.nEntries = region.nEntries + 1]
    /\ UNCHANGED <<engineVars, shards, radix, race, flush, table>>

\* Region::on_ready
OnReady ==
    /\ region.status = "up"
    /\ region.committed # <<>>
    /\ region' = ApplyEntries(region, region.committed, 1)
    /\ UNCHANGED <<engineVars, shards, radix, race, flush, table>>

NextRegion ==
    \/ \E cmd \in Commands : Propose(cmd)
    \/ \E data \in EntryData : Replicate(data)
    \/ OnReady

SpecRegion == Init /\ [][NextRegion]_vars

---------------------------------------------------------------------------
(* shard.rs: the ShardManager routes a key by its first byte to one of its *)
(* engines.  An engine of a shard is the engine modelled above; here it is *)
(* the number of calls handed to it.                                       *)

MaxShardCalls == 2       \* put and get calls on the ShardManager in one behaviour

MAX_KEYSPACE == 256

ShardCounts == 0..(MAX_KEYSPACE + 1)   \* shard_count given to ShardManager::new
ShardKeys == {<<>>, <<0>>, <<84, 1>>, <<85>>, <<255, 255>>}

\* the start byte of shard i: (i * step) as u8
StartByte(step, i) == (i * step) % MAX_KEYSPACE

\* the map the loop of ShardManager::new builds with ranges.insert([start], i)
\* for i = 0, 1, ...: of the shards that share a start byte the last one stays
ShardRanges(shard_count, step) ==
    [k \in {<<StartByte(step, i)>> : i \in 0..(shard_count - 1)} |->
        CHOOSE i \in 0..(shard_count - 1) :
           /\ StartByte(step, i) = k[1]
           /\ \A j \in 0..(shard_count - 1) : StartByte(step, j) = k[1] => j <= i]

\* a lookup that takes the first entry of the map whatever b is
RangeBackFirst(ranges, b) == Some(ranges[<<0>>])

\* ranges.range(..=[b]).next_back(): the entry with the greatest start up to b
RangeBack(ranges, b) ==
    IF \A s \in 0..b : <<s>> \notin DOMAIN ranges THEN None
    ELSE Some(ranges[<<CHOOSE s \in 0..b :
                          /\ <<s>> \in DOMAIN ranges
                          /\ \A t \in (s + 1)..b : <<t>> \notin DOMAIN ranges>>])

\* ShardManager::shard_key
ShardKey(ranges, key) == IF key = <<>> THEN None ELSE RangeBack(ranges, key[1])

\* ShardManager::new
ShardNew(shard_count) ==
    /\ shards.status = "none"
    /\ shards' =
          IF shard_count = 0
          THEN [shards EXCEPT !.status = "down",
                              !.last = [op |-> "new", key |-> <<>>,
                                        res |-> Panic("attempt to divide by zero")]]
          ELSE [shards EXCEPT !.status = "up",
                              !.count = shard_count,
                              !.ranges = ShardRanges(shard_count,
                                                     MAX_KEYSPACE \div shard_count),
                              !.calls = [i \in 0..(shard_count - 1) |-> 0],
                              !.last = [op |-> "new", key |-> <<>>, res |-> Ok(None)]]
    /\ UNCHANGED <<engineVars, region, radix, race, flush, table>>

\* ShardManager::put and ShardManager::get: op is handed to the engine of the
\* shard of key, or refused
ShardCall(op, key) ==
    /\ shards.status = "up"
    /\ shards.nCalls < MaxShardCalls
    /\ \E id \in {ShardKey(shards.ranges, key)} :
          shards' =
             IF id = None
             THEN [shards EXCEPT !.last = [op |-> op, key |-> key, res |-> Err("invalid key")],
                                 !.nCalls = shards.nCalls + 1]
             ELSE IF id[1] \notin DOMAIN shards.calls
             THEN [shards EXCEPT !.last = [op |-> op, key |-> key, res |-> Err("no shard")],
                                 !.nCalls = shards.nCalls + 1]
             ELSE [shards EXCEPT !.last = [op |-> op, key |-> key, res |-> Ok(id)],
                                 !.calls[id[1]] = shards.calls[id[1]] + 1,
                                 !.nCalls = shards.nCalls + 1]
    /\ UNCHANGED <<engineVars, region, radix, race, flush, table>>

NextShard ==
    \/ \E shard_count \in ShardCounts : ShardNew(shard_count)
    \/ \E key \in ShardKeys : ShardCall("put", key)
    \/ \E key \in ShardKeys : ShardCall("get", key)

SpecShard == Init /\ [][NextShard]_vars

---------------------------------------------------------------------------
(* radix.rs: a RadixTree called directly, by one thread.                   *)

MaxRadixCalls == 4       \* calls on the tree in one behaviour

RadixKeys == Keys \cup {<<2>>}
RadixOps == {"insert", "put", "remove", "get", "iter_all"}

\* the tree and the result of one call
RadixResult(t, op, key, value) ==
    IF op = "insert" THEN TrieInsert(t, key, value)
    ELSE IF op = "put" THEN TriePut(t, key, value)
    ELSE IF op = "remove" THEN TrieRemove(t, key)
    ELSE IF op = "get" THEN [tree |-> t, res |-> TrieGet(t, key)]
    ELSE [tree |-> t, res |-> Ok(None)]

\* the finite map after a call: a write that returned Ok binds the key, a
\* remove that returned Ok unbinds it
MapAfter(m, op, key, value, res) ==
    IF res.tag # "Ok" THEN m
    ELSE IF op \in {"insert", "put"} THEN {kv \in m : kv[1] # key} \cup {<<key, value>>}
    ELSE IF op = "remove" THEN {kv \in m : kv[1] # key}
    ELSE m

RadixCalled(r, op, key, value) ==
    [tree |-> r.tree,
     last |-> [op |-> op, key |-> key, val |-> value, res |-> r.res,
               out |-> IF op = "iter_all" THEN IterAll(r.tree) ELSE <<>>],
     prev |-> [op |-> radix.last.op, key |-> radix.last.key, res |-> radix.last.res],
     map |-> MapAfter(radix.map, op, key, value, r.res),
     nCalls |-> radix.nCalls + 1]

RadixCall(op, key, value) ==
    /\ radix.nCalls < MaxRadixCalls
    /\ \E r \in {RadixResult(radix.tree, op, key, value)} :
          radix' = RadixCalled(r, op, key, value)
    /\ UNCHANGED <<engineVars, region, shards, race, flush, table>>

NextRadix ==
    \/ \E key \in RadixKeys, value \in Values : RadixCall("insert", key, value)
    \/ \E key \in RadixKeys, value \in Values : RadixCall("put", key, value)
    \/ \E key \in RadixKeys : RadixCall("remove", key, <<>>)
    \/ \E key \in RadixKeys : RadixCall("get", key, <<>>)
    \/ RadixCall("iter_all", <<>>, <<>>)

SpecRadix == Init /\ [][NextRadix]_vars

---------------------------------------------------------------------------
(* radix.rs: one RadixTree called by two threads.  A step is one atomic    *)
(* access (load, compare_exchange, swap) of one thread; the heap is the    *)
(* sequence of the nodes installed so far, a child slot holds the index of *)
(* a node or is null, a value slot holds the value with the thread that    *)
(* allocated it (the identity of the pointer).                             *)

MaxRaceCalls == 2        \* calls of one thread in one behaviour

RaceKeys == {<<1>>, <<1, 2>>, <<1, 3>>}
RaceValues == NonEmptyValues

\* the child slot b of node n: 0 is the null pointer
Child(heap, n, b) ==
    IF b \in DOMAIN heap[n].children THEN heap[n].children[b] ELSE 0

\* a fresh node stored in child slot b of node n
Install(heap, n, b) ==
    Append([heap EXCEPT ![n].children =
               [c \in DOMAIN heap[n].children \cup {b} |->
                   IF c = b THEN Len(heap) + 1 ELSE heap[n].children[c]]],
           NewNode)

\* a thread that stores its node whatever the slot holds
StoreChild(heap, n, b) ==
    [heap |-> Install(heap, n, b), next |-> Len(heap) + 1, won |-> TRUE]

\* next.compare_exchange(null, new_next): the node read next is the new one
\* on success and e.current on failure, when the new node is dropped
CompareExchangeChild(heap, n, b) ==
    IF Child(heap, n, b) = 0
    THEN [heap |-> Install(heap, n, b), next |-> Len(heap) + 1, won |-> TRUE]
    ELSE [heap |-> heap, next |-> Child(heap, n, b), won |-> FALSE]

\* curr_shared = next_shared, and the loop goes on or ends
Advance(th, next) ==
    [th EXCEPT !.curr = next, !.i = th.i + 1,
               !.pc = IF th.i = Len(th.key) THEN "value" ELSE "load"]

Returned(th, res) == [th EXCEPT !.pc = "done", !.res = res]

\* the call begins: the root is loaded, and it is never null
RaceStart(t, op, key, val) ==
    /\ race.threads[t].pc \in {"idle", "done"}
    /\ race.threads[t].calls < MaxRaceCalls
    /\ race' = [race EXCEPT !.threads[t] =
                   [Idle EXCEPT !.pc = "load", !.op = op, !.key = key, !.val = val,
                                !.i = 1, !.curr = 1,
                                !.calls = race.threads[t].calls + 1]]
    /\ UNCHANGED <<engineVars, region, shards, radix, flush, table>>

\* the load of the child slot: remove returns on null, insert and put go on
\* to the compare_exchange
RaceLoadChild(t) ==
    /\ race.threads[t].pc = "load"
    /\ \E th \in {race.threads[t]} :
       \E next \in {Child(race.heap, th.curr, th.key[th.i])} :
          race' = [race EXCEPT !.threads[t] =
                      IF next # 0 THEN Advance(th, next)
                      ELSE IF th.op = "remove" THEN Returned(th, Ok(None))
                      ELSE [th EXCEPT !.pc = "cas"]]
    /\ UNCHANGED <<engineVars, region, shards, radix, flush, table>>

\* the compare_exchange of the child slot that was read as null
RaceCasChild(t) ==
    /\ race.threads[t].pc = "cas"
    /\ \E th \in {race.threads[t]} :
       \E c \in {CompareExchangeChild(race.heap, th.curr, th.key[th.i])} :
          race' = [race EXCEPT !.heap = c.heap,
                               !.acked = IF c.won THEN Append(race.acked, None) ELSE race.acked,
                               !.threads[t] = [Advance(th, c.next) EXCEPT
                                                  !.adopted = th.adopted \/ ~c.won]]
    /\ UNCHANGED <<engineVars, region, shards, radix, flush, table>>

\* the swap of the value slot by insert (the new value) and remove (null)
RaceSwapValue(t) ==
    /\ race.threads[t].pc = "value"
    /\ race.threads[t].op \in {"insert", "remove"}
    /\ \E th \in {race.threads[t]} :
       \E old \in {race.heap[th.curr].value} :
          race' = [race EXCEPT
                      !.heap[th.curr].value =
                          IF th.op = "insert" THEN Some([v |-> th.val, by |-> <<t, th.calls>>]) ELSE None,
                      !.acked[th.curr] =
                          IF th.op = "remove" THEN None
                          ELSE IF old = None THEN Some(th.val)
                          ELSE race.acked[th.curr],
                      !.threads[t] =
                          Returned(th, IF th.op = "remove"
                                       THEN (IF old = None THEN Ok(None) ELSE Ok(Some(old[1].v)))
                                       ELSE IF old = None THEN Ok(None)
                                       ELSE ErrWith("AlreadyWritten", old[1].v))]
    /\ UNCHANGED <<engineVars, region, shards, radix, flush, table>>

\* the load of the value slot by put
RaceLoadValue(t) ==
    /\ race.threads[t].pc = "value"
    /\ race.threads[t].op = "put"
    /\ race' = [race EXCEPT !.threads[t].seen = race.heap[race.threads[t].curr].value,
                            !.threads[t].pc = "cas_value"]
    /\ UNCHANGED <<engineVars, region, shards, radix, flush, table>>

\* the results of put when its compare_exchange fails: e.current is
\* dereferenced, which is undefined when the slot holds null
PutFailed(current) ==
    IF current # None THEN {ErrWith("Failed", current[1].v)}
    ELSE {Panic("null pointer dereference")}
         \cup {ErrWith("Failed", garbage) : garbage \in RaceValues \cup {<<>>}}

\* the compare_exchange of the value slot by put
RaceCasValue(t) ==
    /\ race.threads[t].pc = "cas_value"
    /\ \E th \in {race.threads[t]} :
       \E current \in {race.heap[th.curr].value} :
          IF current = th.seen
          THEN race' = [race EXCEPT !.heap[th.curr].value = Some([v |-> th.val, by |-> <<t, th.calls>>]),
                                    !.acked[th.curr] = Some(th.val),
                                    !.threads[t] = Returned(th, Ok(Some(th.val)))]
          ELSE \E res \in PutFailed(current) :
                  race' = [race EXCEPT !.threads[t] = Returned(th, res)]
    /\ UNCHANGED <<engineVars, region, shards, radix, flush, table>>

RECURSIVE HeapWalk(_, _, _, _)
\* the node at the end of the path of key from node n, 0 when a slot is null
HeapWalk(heap, n, key, i) ==
    IF i > Len(key) THEN n
    ELSE IF Child(heap, n, key[i]) = 0 THEN 0
    ELSE HeapWalk(heap, Child(heap, n, key[i]), key, i + 1)

\* RadixTree::get on the shared tree
HeapGet(heap, key) ==
    IF key = <<>> THEN Err("InvalidKey")
    ELSE IF HeapWalk(heap, 1, key, 1) = 0 THEN Ok(None)
    ELSE IF heap[HeapWalk(heap, 1, key, 1)].value = None THEN Ok(None)
    ELSE Ok(Some(heap[HeapWalk(heap, 1, key, 1)].value[1].v))

NextRace ==
    \/ \E t \in Threads, key \in RaceKeys, val \in RaceValues : RaceStart(t, "insert", key, val)
    \/ \E t \in Threads, key \in RaceKeys, val \in RaceValues : RaceStart(t, "put", key, val)
    \/ \E t \in Threads, key \in RaceKeys : RaceStart(t, "remove", key, <<>>)
    \/ \E t \in Threads : RaceLoadChild(t)
    \/ \E t \in Threads : RaceCasChild(t)
    \/ \E t \in Threads : RaceSwapValue(t)
    \/ \E t \in Threads : RaceLoadValue(t)
    \/ \E t \in Threads : RaceCasValue(t)

SpecRace == Init /\ [][NextRace]_vars

---------------------------------------------------------------------------
(* engine.rs: the put that flushes, statement by statement, and a reader   *)
(* that calls get between two statements.                                  *)

\* put finds the memtable full; flush_memtable dumps it and writes the SST
FlushWrite(key, val, sst_id) ==
    /\ status = "up"
    /\ nOps < MaxOps
    /\ flush.pc = "idle"
    /\ FlushNeeded(Cur, key, val)
    /\ sstFiles' = WithSst(sstFiles, sst_id, SstWriteAll(IterAll(memtable)))
    /\ flush' = [flush EXCEPT !.pc = "written", !.key = key, !.val = val,
                              !.sst_id = sst_id, !.k_v_iters = IterAll(memtable)]
    /\ UNCHANGED <<status, walFile, walSynced, wal, memtable, memtable_bytes, next_lsn,
                   sst_readers, last, prevMut, shadow, lastPut, onlyPuts, damage, hist,
                   nOps, nFaults, nRestarts, region, shards, radix, race, table>>

\* self.memtable = Arc::new(RadixTree::new()); self.memtable_bytes.store(0)
FlushReset ==
    /\ flush.pc = "written"
    /\ memtable' = NewTree
    /\ memtable_bytes' = 0
    /\ flush' = [flush EXCEPT !.pc = "reset"]
    /\ UNCHANGED <<status, walFile, walSynced, sstFiles, wal, next_lsn,
                   sst_readers, last, prevMut, shadow, lastPut, onlyPuts, damage, hist,
                   nOps, nFaults, nRestarts, region, shards, radix, race, table>>

\* self.wal = WalWriter::open(wal_path, true)
FlushRotate ==
    /\ flush.pc = "reset"
    /\ \E w \in {WalWriterOpen(walFile, TRUE)} : walFile' = w.file /\ wal' = w.wal
    /\ flush' = [flush EXCEPT !.pc = "rotated"]
    /\ UNCHANGED <<status, walSynced, sstFiles, memtable, memtable_bytes, next_lsn,
                   sst_readers, last, prevMut, shadow, lastPut, onlyPuts, damage, hist,
                   nOps, nFaults, nRestarts, region, shards, radix, race, table>>

\* SSTReader::open(sst_path) and self.sst_readers.push
FlushAppend ==
    /\ flush.pc = "rotated"
    /\ sst_readers' = Append(sst_readers,
                             [id |-> flush.sst_id,
                              index |-> SstReaderOpen(sstFiles[flush.sst_id]).index])
    /\ flush' = [flush EXCEPT !.pc = "appended"]
    /\ UNCHANGED <<status, walFile, walSynced, sstFiles, wal, memtable, memtable_bytes,
                   next_lsn, last, prevMut, shadow, lastPut, onlyPuts, damage, hist,
                   nOps, nFaults, nRestarts, region, shards, radix, race, table>>

\* the flush returned Ok: put writes the memtable and the log
PutAfterFlush ==
    /\ flush.pc = "appended"
    /\ \E r \in {PutFlushed(Cur, TRUE, flush.key, flush.val, "none")} :
          /\ AfterCall(r)
          /\ last' = Call("put", flush.key, flush.val, r, EngineGet(Cur, flush.key),
                          TrieGet(memtable, flush.key))
          /\ prevMut' = Recent(Mut("put", flush.key, r.res), prevMut)
          /\ shadow' = Remember(shadow, flush.key,
                                IF r.res.tag = "Ok" THEN Some(flush.val) ELSE None)
          /\ lastPut' = Remember(lastPut, flush.key,
                                 IF r.res.tag = "Ok" THEN Some(flush.val)
                                 ELSE lastPut[flush.key])
          /\ onlyPuts' = (onlyPuts /\ r.res.tag = "Ok" /\ flush.val # <<>>)
          /\ hist' = Record(hist, r, flush.sst_id)
    /\ damage' = [damage EXCEPT !.fresh = FALSE]
    /\ nOps' = nOps + 1
    /\ flush' = [flush EXCEPT !.pc = "idle"]
    /\ UNCHANGED <<nFaults, nRestarts, region, shards, radix, race, table>>

\* Engine::get called by a reader, between two statements of the writer
ReaderGet(key) ==
    /\ status = "up"
    /\ flush' = [flush EXCEPT !.got = [pc |-> flush.pc, key |-> key,
                                       res |-> EngineGet(Cur, key)]]
    /\ UNCHANGED <<engineVars, region, shards, radix, race, table>>

NextSteps ==
    \/ \E key \in Keys, val \in Values :
          flush.pc = "idle" /\ ~FlushNeeded(Cur, key, val) /\ Put(key, val, FirstSstId, "none")
    \/ \E key \in Keys : flush.pc = "idle" /\ Delete(key, "none")
    \/ \E key \in Keys, val \in Values, sst_id \in SstIds : FlushWrite(key, val, sst_id)
    \/ FlushReset
    \/ FlushRotate
    \/ FlushAppend
    \/ PutAfterFlush
    \/ \E key \in NonEmptyKeys : ReaderGet(key)

SpecSteps == Init /\ [][NextSteps]_vars

---------------------------------------------------------------------------
(* sst.rs: one file written by an SSTWriter and read by an SSTReader.      *)

MaxSstEntries == 3       \* entries handed to write_all

\* the vectors of entries write_all is called with, in any order of the keys
EntryLists == UNION {[1..n -> RadixKeys \X Values] : n \in 0..MaxSstEntries}

\* SSTWriter::open and write_all(entries)
SstWrite(entries) ==
    /\ table.status = "none"
    /\ table' = [table EXCEPT !.status = "written", !.entries = entries,
                            !.file = SstWriteAll(entries)]
    /\ UNCHANGED <<engineVars, region, shards, radix, race, flush>>

\* SSTReader::open on the file
SstOpen ==
    /\ table.status = "written"
    /\ \E r \in {SstReaderOpen(table.file)} :
          table' = [table EXCEPT !.status = IF r.ok THEN "open" ELSE "failed",
                                 !.index = r.index]
    /\ UNCHANGED <<engineVars, region, shards, radix, race, flush>>

\* SSTReader::get(key)
SstLookup(key) ==
    /\ table.status = "open"
    /\ table' = [table EXCEPT !.got = [key |-> key, called |-> TRUE,
                                       res |-> SstGet(table.index, table.file, key)]]
    /\ UNCHANGED <<engineVars, region, shards, radix, race, flush>>

NextSst ==
    \/ \E entries \in EntryLists : SstWrite(entries)
    \/ SstOpen
    \/ \E key \in RadixKeys : SstLookup(key)

SpecSst == Init /\ [][NextSst]_vars

---------------------------------------------------------------------------
(* Reference semantics the claims are stated against: a key-value map as a *)
(* set of <<key, value>> pairs.                                            *)

Without(m, key) == {kv \in m : kv[1] # key}

\* the map after the records from i on: Put binds the key, Delete unbinds it
RECURSIVE RefApply(_, _, _)
RefApply(records, i, m) ==
    IF i > Len(records) THEN m
    ELSE IF records[i].op = OP_PUT
    THEN RefApply(records, i + 1,
                  Without(m, records[i].key) \cup {<<records[i].key, records[i].value[1]>>})
    ELSE RefApply(records, i + 1, Without(m, records[i].key))

\* the pairs a trie holds
TreeAsMap(t) == {<<p, t[p][1]>> : p \in {q \in DOMAIN t : t[q] # None}}

\* the SST readers of the engine whose index holds key
ReadersHolding(key) == {i \in 1..Len(sst_readers) : key \in DOMAIN sst_readers[i].index}

---------------------------------------------------------------------------
(* The claims.                                                             *)

\* C1: a successful put(k, v) of a non-empty key and value, with no later put
\* or delete of k in the process, makes get(k) return Some(v), whatever other
\* puts and flushes came in between.
C1_PutThenGet ==
    status = "up" =>
       \A k \in NonEmptyKeys :
          (shadow[k] # None /\ shadow[k][1] # <<>>) => EngineGet(Cur, k) = Ok(shadow[k])

\* C2: after successful puts of non-empty keys and values only, a close and a
\* reopen, get(k) returns the value of the last put(k, _) for every key put.
C2_RestartDurability ==
    (status = "up" /\ last.op = "open" /\ nRestarts >= 1 /\ onlyPuts) =>
       \A k \in NonEmptyKeys : lastPut[k] # None => EngineGet(Cur, k) = Ok(lastPut[k])

PutThenDelete ==
    /\ status = "up"
    /\ Len(prevMut) = 2
    /\ prevMut[1].op = "delete" /\ prevMut[1].ok
    /\ prevMut[2].op = "put" /\ prevMut[2].ok
    /\ prevMut[1].key = prevMut[2].key

\* C4 as stated: after put(k, v) then delete(k) with no flush between, get(k)
\* returns None in every reachable state.
C4_DeleteThenGetNone ==
    PutThenDelete => EngineGet(Cur, prevMut[1].key) = Ok(None)

\* C4 as amended: after put(k, v) then delete(k) with no flush between, the
\* memtable no longer holds k, and get(k) returns None when no SST reader of
\* the engine holds k.
C4_DeleteClearsMemtable ==
    PutThenDelete =>
       /\ TrieGet(memtable, prevMut[1].key) = Ok(None)
       /\ ReadersHolding(prevMut[1].key) = {} => EngineGet(Cur, prevMut[1].key) = Ok(None)

C4_Witness ==
    /\ PutThenDelete
    /\ last.op = "delete"
    /\ sst_readers # <<>>
    /\ ReadersHolding(prevMut[1].key) = {}

\* C5: put, get and delete with an empty key return an error, and the trie's
\* get, insert, put and remove return InvalidKey for the empty key.
C5_EmptyKeyRejected ==
    /\ (last.op \in {"put", "get", "delete"} /\ last.key = <<>>) => last.res.tag = "Err"
    /\ TrieGet(memtable, <<>>) = Err("InvalidKey")
    /\ \A v \in Values :
          /\ TrieInsert(memtable, <<>>, v).res = Err("InvalidKey")
          /\ TriePut(memtable, <<>>, v).res = Err("InvalidKey")
    /\ TrieRemove(memtable, <<>>).res = Err("InvalidKey")

C5_Witness ==
    /\ last.op = "put" /\ last.key = <<>> /\ last.flushed
    /\ last.res.tag = "Err"

\* the record the last put or delete handed to append_record
LastRecord ==
    IF last.op = "put" THEN WalEncode(last.lsn, OP_PUT, last.key, Some(last.val))
    ELSE WalEncode(last.lsn, OP_DELETE, last.key, None)

\* C6: put and delete report success only after their WAL record has been
\* written to wal.log and the sync of the file has returned success: every
\* acknowledged mutation has its record in the synced bytes of wal.log.
C6_AckedIsSynced ==
    (last.op \in {"put", "delete"} /\ last.res.tag = "Ok") =>
       /\ last.appended
       /\ ReadExact(walSynced, last.offset, Len(LastRecord)) = Some(LastRecord)

\* C7: when the WAL append inside put or delete fails with an I/O error, the
\* error is returned and the memtable is not mutated: get(k) returns what it
\* returned before the call.
C7_FailedAppendLeavesMemtable ==
    (last.op \in {"put", "delete"} /\ last.appended /\ last.res.tag = "Err") =>
       (status = "up" /\ EngineGet(Cur, last.key) = last.getBefore)

\* Engine::open has just completed on the directory
Reopened == status = "up" /\ last.op = "open" /\ last.res.tag = "Ok" /\ nRestarts >= 1

\* C8: after Engine::open completes, the memtable holds exactly what the valid
\* records at the head of wal.log yield when applied in ascending LSN order,
\* and get returns the memtable's value for a key also held by an SST.
C8_ReplayAppliesValidPrefix ==
    Reopened =>
       /\ TreeAsMap(memtable) = RefApply(SortByLsn(Written(walFile)), 1, {})
       /\ \A kv \in RefApply(SortByLsn(Written(walFile)), 1, {}) :
             EngineGet(Cur, kv[1]) = Ok(Some(kv[2]))

C8_Witness ==
    /\ Reopened
    /\ \E k \in NonEmptyKeys :
          /\ TrieGet(memtable, k).opt # None
          /\ ReadersHolding(k) # {}
          /\ ProbeSsts(Cur, k, Len(sst_readers)) # TrieGet(memtable, k)

\* Engine::open has just run on a wal.log damaged in one of the given fields of
\* a record
OpenedAfter(kind, fields) ==
    /\ last.op = "open" /\ nRestarts >= 1
    /\ damage.fresh /\ damage.kind = kind /\ damage.field \in fields

\* open succeeded with exactly the records before the damaged one applied
RecoveredBeforeDamage ==
    /\ status = "up"
    /\ last.res.tag = "Ok"
    /\ TreeAsMap(memtable) = RefApply(SubSeq(damage.before, 1, damage.idx - 1), 1, {})

\* C9: when the checksummed payload or the stored CRC of a WAL record is
\* corrupted, Engine::open succeeds and the engine state is the state as of
\* the record before the corrupted one.
C9_CorruptionTruncatesRecovery ==
    OpenedAfter("corrupt", {"op", "klen", "key", "vlen", "value", "crc"})
       => RecoveredBeforeDamage

\* C10: when wal.log ends in the middle of a record, at any interior field,
\* read_all returns the records parsed so far without an error and
\* Engine::open succeeds with exactly those records applied.
C10_TornTailTruncatesRecovery ==
    OpenedAfter("torn", {"op", "klen", "key", "vlen", "value", "crc"})
       => RecoveredBeforeDamage

\* C11: a flush run at any point where a put can trigger one does not change
\* what get returns for any key: a get after the flush returns the pre-flush
\* value.
C11_FlushTransparent ==
    status = "up" =>
       \A key \in Keys, val \in Values, sst_id \in SstIds :
          FlushNeeded(Cur, key, val) =>
             \A k \in NonEmptyKeys :
                EngineGet(FlushMemtable(Cur, sst_id), k) = EngineGet(Cur, k)

\* the SST files, in the order they were written, that hold key
Holding(key) ==
    {i \in 1..Len(hist.created) :
        key \in DOMAIN SstReaderOpen(sstFiles[hist.created[i]]).index}

\* the most recently written SST file that holds key
NewestHolding(key) ==
    hist.created[CHOOSE i \in Holding(key) : \A j \in Holding(key) : j <= i]

\* what a reader opened on sst-<id>.dat answers for key
SstValue(id, key) == SstGet(SstReaderOpen(sstFiles[id]).index, sstFiles[id], key)

ReaderIds == [i \in 1..Len(sst_readers) |-> sst_readers[i].id]

\* C12: after a restart that left the memtable empty, the reader list built
\* from the sorted file names is in creation order, and get(k) returns the
\* value of the most recently created SST that holds k.
C12_ShadowAfterRestart ==
    (status = "up" /\ last.op = "open" /\ nRestarts >= 1 /\ IterAll(memtable) = <<>>) =>
       /\ ReaderIds = hist.created
       /\ \A k \in NonEmptyKeys :
             Holding(k) # {} => EngineGet(Cur, k) = SstValue(NewestHolding(k), k)

\* C13: every LSN the engine assigns after a reopen is strictly greater than
\* every LSN it assigned, before the restart, to a record whose append
\* succeeded.
C13_LsnGrowsAcrossRestart ==
    (nRestarts >= 1 /\ last.op \in {"put", "delete"} /\ last.appended) =>
       last.lsn > hist.lsnBefore

\* the LSNs of the records read_all finds in wal.log, in file order
WalLsns == [i \in 1..Len(ReadAll(walFile).records) |-> ReadAll(walFile).records[i].lsn]

Increasing(lsns) == \A i, j \in 1..Len(lsns) : i < j => lsns[i] < lsns[j]

\* C14: in every reachable state the records of wal.log carry strictly
\* increasing LSNs in file order.
C14_WalLsnsIncrease == Increasing(WalLsns)

\* C15: every flush writes a new file sst-<id>.dat whose id is strictly
\* greater than the id of every SST already in the directory, leaves every
\* existing SST file as it was, and appends one reader to the reader list.
C15_FlushWritesNewSst ==
    [][(nOps' = nOps + 1 /\ last'.op = "put" /\ last'.flushed) =>
          /\ \E id \in DOMAIN sstFiles' \ DOMAIN sstFiles :
                /\ \A old \in DOMAIN sstFiles : old < id
                /\ Len(sst_readers') = Len(sst_readers) + 1
                /\ sst_readers'[Len(sst_readers')].id = id
                /\ SubSeq(sst_readers', 1, Len(sst_readers)) = sst_readers
          /\ \A old \in DOMAIN sstFiles : sstFiles'[old] = sstFiles[old]]_vars

\* footer readable, index resolvable: a reader opens on the bytes and every
\* indexed key is read back
WellFormed(file) ==
    /\ SstReaderOpen(file).ok
    /\ \A k \in DOMAIN SstReaderOpen(file).index :
          SstGet(SstReaderOpen(file).index, file, k).tag = "Ok"

\* C16: whenever the process can end, also in the middle of a flush, every
\* file sst-<id>.dat of the directory is complete and well-formed.
C16_SstAbsentOrComplete == \A id \in DOMAIN sstFiles : WellFormed(sstFiles[id])

\* C17: when a process ends at any point of a flush, every mutation
\* acknowledged before is recovered by the next Engine::open from the SSTs
\* together with wal.log.
C17_FlushCrashKeepsAcked ==
    (hist.crashed /\ last.op = "open" /\ onlyPuts) =>
       /\ last.res.tag = "Ok"
       /\ \A k \in NonEmptyKeys :
             lastPut[k] # None => EngineGet(Cur, k) = Ok(lastPut[k])

\* C18: a put whose flush fails with an I/O error leaves the memtable with its
\* entries and its byte count, leaves wal.log as it was, and changes the
\* result of get for no key.
C18_FailedFlushKeepsState ==
    [][(nOps' = nOps + 1 /\ last'.op = "put" /\ last'.res.err = "flush") =>
          /\ memtable' = memtable
          /\ memtable_bytes' = memtable_bytes
          /\ walFile' = walFile
          /\ \A k \in NonEmptyKeys : EngineGet(Cur, k)' = EngineGet(Cur, k)]_vars

\* C19: a put of an empty value is kept like any other: while it is the last
\* call on its key, get returns Some(empty), also after a flush; and after a
\* restart of a directory whose history is acknowledged puts only, the engine
\* opens and get returns Some(empty) for a key whose last put wrote an empty
\* value.
C19_EmptyValueKept ==
    /\ status = "up" =>
          \A k \in NonEmptyKeys :
             shadow[k] = Some(<<>>) => EngineGet(Cur, k) = Ok(Some(<<>>))
    /\ (last.op = "open" /\ nRestarts >= 1 /\ hist.acked) =>
          \A k \in NonEmptyKeys :
             lastPut[k] = Some(<<>>) =>
                status = "up" /\ EngineGet(Cur, k) = Ok(Some(<<>>))

UnknownTag(data) == data # <<>> /\ data[1] \notin {TAG_PUT, TAG_DELETE}

\* C20: Command::decode on bytes whose first byte is neither 0x01 nor 0x02
\* returns a decode error and does not panic, also when Region::on_ready
\* decodes a committed entry: the region stays up.
C20_UnknownTagIsError ==
    (region.last.by # "none" /\ UnknownTag(region.last.data)) =>
       /\ region.last.res.tag = "Err"
       /\ region.status = "up"

\* C21: decoding the encoding of a command gives the command back, for a Put
\* or a Delete with any key and value, the empty ones included: what
\* Region::on_ready decodes from a proposed command is that command.
C21_CodecRoundTrip ==
    \A cmd \in Commands :
       (region.last.by # "none" /\ region.last.data = CommandEncode(cmd)) =>
          /\ region.last.res = Ok(Some(cmd))
          /\ region.status = "up"

C21_Witness ==
    /\ region.last.by = "on_ready"
    /\ region.last.data = CommandEncode(CmdPut(<<>>, <<>>))
    /\ region.nEntries = MaxEntries
    /\ region.committed = <<>>

\* the shard of the keys whose first byte is b
ShardOf(b) == ShardKey(shards.ranges, <<b>>)

\* for 1 <= N <= 256 shards: every first byte is routed to one of the N
\* shards, a key is routed as its first byte is, the shard index does not
\* decrease as the first byte grows, and every shard owns a first byte
RoutingTable ==
    (shards.last.op = "new" /\ shards.count \in 1..MAX_KEYSPACE) =>
       /\ \A b \in 0..(MAX_KEYSPACE - 1) :
             ShardOf(b) # None /\ ShardOf(b)[1] \in 0..(shards.count - 1)
       /\ \A key \in ShardKeys \ {<<>>} : ShardKey(shards.ranges, key) = ShardOf(key[1])
       /\ \A b \in 0..(MAX_KEYSPACE - 2) : ShardOf(b)[1] <= ShardOf(b + 1)[1]
       /\ \A i \in 0..(shards.count - 1) :
             \E k \in DOMAIN shards.ranges : shards.ranges[k] = i /\ ShardOf(k[1]) = Some(i)

\* a put or get with an empty key returns an error and reaches no engine; with
\* any other key it reaches the engine of the shard of the first byte, and
\* no other
RoutedCall ==
    (shards'.nCalls = shards.nCalls + 1 /\ shards.count \in 1..MAX_KEYSPACE) =>
       IF shards'.last.key = <<>>
       THEN shards'.last.res.tag = "Err" /\ shards'.calls = shards.calls
       ELSE \E id \in {ShardOf(shards'.last.key[1])} :
               /\ shards'.last.res = Ok(id)
               /\ \A i \in DOMAIN shards.calls :
                     shards'.calls[i] = IF Some(i) = id THEN shards.calls[i] + 1
                                        ELSE shards.calls[i]

\* C22: for every shard count N with 1 <= N <= 256 the ShardManager routes
\* every non-empty key to exactly one shard that depends only on the key's
\* first byte, monotonically, every shard owning a first byte; put and get
\* with an empty key are refused without reaching an engine.
C22_ShardRouting == []RoutingTable /\ [][RoutedCall]_vars

C22_Witness ==
    /\ shards.count = 3
    /\ shards.nCalls = 2
    /\ shards.last.op = "put"
    /\ shards.last.key = <<85>>
    /\ shards.last.res = Ok(Some(1))
    /\ shards.calls = [i \in 0..2 |-> IF i = 1 THEN 1 ELSE 0]
    /\ ShardOf(84) = Some(0)
    /\ ShardOf(255) = Some(2)

\* what get returns for the key before and after a step of the stand-alone tree
GetBefore(key) == TrieGet(radix.tree, key)
GetAfter(key) == TrieGet(radix'.tree, key)

\* C23: insert(k, v) on a key that holds a value fails with AlreadyWritten
\* carrying the resident value and leaves that value in place: get(k) still
\* returns it after the call.
C23_InsertKeepsResident ==
    [][\A key \in RadixKeys \ {<<>>} :
          (/\ radix'.nCalls = radix.nCalls + 1
           /\ radix'.last.op = "insert"
           /\ radix'.last.key = key
           /\ GetBefore(key).opt # None) =>
             /\ radix'.last.res = ErrWith("AlreadyWritten", GetBefore(key).opt[1])
             /\ GetAfter(key) = GetBefore(key)]_vars

\* the step is a call of op on key
RadixStep(op, key) ==
    /\ radix'.nCalls = radix.nCalls + 1
    /\ radix'.last.op = op
    /\ radix'.last.key = key

\* C24: remove(k) returns the value k held, or None when the path is missing
\* or the slot is empty; after it get(k) returns None; and an insert(k, v')
\* that follows it returns Ok(None) and makes get(k) return v'.
C24_RemoveThenInsert ==
    [][\A key \in RadixKeys \ {<<>>} :
          /\ RadixStep("remove", key) =>
                /\ radix'.last.res = Ok(GetBefore(key).opt)
                /\ GetAfter(key) = Ok(None)
          /\ (/\ radix.last.op = "remove"
              /\ radix.last.key = key
              /\ RadixStep("insert", key)) =>
                /\ radix'.last.res = Ok(None)
                /\ GetAfter(key) = Ok(Some(radix'.last.val))]_vars

C24_Witness ==
    /\ radix.prev.op = "remove"
    /\ radix.prev.key = <<1, 2>>
    /\ radix.prev.res = Ok(Some(<<7>>))
    /\ radix.last.op = "insert"
    /\ radix.last.key = <<1, 2>>
    /\ radix.last.res = Ok(None)
    /\ TrieGet(radix.tree, <<1, 2>>) = Ok(Some(<<8>>))

\* the pairs <<key, value>> for which get(key) returns Some(value)
Held(t) ==
    {<<k, TrieGet(t, k).opt[1]>> :
        k \in {p \in DOMAIN t \cup RadixKeys :
                  TrieGet(t, p).tag = "Ok" /\ TrieGet(t, p).opt # None}}

\* C25: iter_all returns exactly the pairs get returns, each once, in
\* strictly ascending bytewise order of the keys (a key before the keys it is
\* a proper prefix of); removed keys and nodes without a value are left out.
C25_IterAllOrdered ==
    radix.last.op = "iter_all" =>
       /\ {radix.last.out[i] : i \in 1..Len(radix.last.out)} = Held(radix.tree)
       /\ Len(radix.last.out) = Cardinality(Held(radix.tree))
       /\ \A i \in 1..(Len(radix.last.out) - 1) :
             SeqLess(radix.last.out[i][1], radix.last.out[i + 1][1], 1)

C25_Witness ==
    /\ radix.last.op = "iter_all"
    /\ radix.last.out = << <<(<<1>>), <<7>>>>, <<(<<1, 2>>), <<8>>>>, <<(<<2>>), <<7>>>> >>

\* the step is a call of put(key, val) on the engine
PutStep(key, val) ==
    /\ nOps' = nOps + 1
    /\ last'.op = "put"
    /\ last'.key = key
    /\ last'.val = val

\* C26: put(k, v) flushes (a reader is appended to sst_readers) exactly when
\* memtable_bytes + |k| + |v| >= memtable_max_bytes, equality included; a
\* put that is applied without a flush adds exactly |k| + |v| to
\* memtable_bytes, whether or not the memtable held k.
C26_FlushThreshold ==
    [][\A key \in Keys, val \in Values :
          PutStep(key, val) =>
             /\ (Len(sst_readers') = Len(sst_readers) + 1)
                   <=> (memtable_bytes + Len(key) + Len(val) >= MemtableMaxBytes)
             /\ Len(sst_readers') \in {Len(sst_readers), Len(sst_readers) + 1}
             /\ (Len(sst_readers') = Len(sst_readers) /\ last'.res.tag = "Ok") =>
                   memtable_bytes' = memtable_bytes + Len(key) + Len(val)]_vars

C26_Witness ==
    /\ last.op = "put"
    /\ last.key = <<1>>
    /\ last.val = <<7>>
    /\ last.res.tag = "Ok"
    /\ last.slotBefore = Ok(Some(<<>>))
    /\ sst_readers = <<>>
    /\ memtable_bytes = 3

\* what reader r answers for the keys of its index, on the files of the directory
ReaderHolds(r, files) == {<<k, SstGet(r.index, files[r.id], k)>> : k \in DOMAIN r.index}

\* the pairs of memtable t, as a reader that holds them would answer
MemtableHolds(t) == {<<kv[1], Ok(Some(kv[2]))>> : kv \in Held(t)}

NewReader == sst_readers'[Len(sst_readers')]

\* C27: a put that flushes appends exactly one reader, whose contents are the
\* pairs the memtable held before the flush; the flush empties the memtable,
\* zeroes memtable_bytes and leaves wal.log without records, so that after
\* the put the memtable, the counter and wal.log hold the put's own pair only.
C27_FlushResets ==
    [][\A key \in Keys, val \in Values :
          (PutStep(key, val) /\ last'.flushed) =>
             /\ Len(sst_readers') = Len(sst_readers) + 1
             /\ SubSeq(sst_readers', 1, Len(sst_readers)) = sst_readers
             /\ ReaderHolds(NewReader, sstFiles') = MemtableHolds(memtable)
             /\ Held(memtable') = IF last'.res.tag = "Ok" THEN {<<key, val>>} ELSE {}
             /\ memtable_bytes' = IF last'.res.tag = "Ok" THEN Len(key) + Len(val) ELSE 0
             /\ ReadAll(walFile').ok
             /\ Len(ReadAll(walFile').records) = IF last'.res.tag = "Ok" THEN 1 ELSE 0
             /\ \A i \in 1..Len(ReadAll(walFile').records) :
                   /\ ReadAll(walFile').records[i].op = "Put"
                   /\ ReadAll(walFile').records[i].key = key]_vars

C27_Witness ==
    /\ last.op = "put"
    /\ last.flushed
    /\ last.key = <<1, 2>>
    /\ last.val = <<8>>
    /\ last.res.tag = "Ok"
    /\ Len(sst_readers) = 1
    /\ ReaderHolds(sst_readers[1], sstFiles) = {<<(<<1>>), Ok(Some(<<7>>))>>}
    /\ Held(memtable) = {<<(<<1, 2>>), <<8>>>>}
    /\ memtable_bytes = 3

\* the sum of |key| + |value| over a set of pairs
RECURSIVE PairBytes(_)
PairBytes(pairs) ==
    IF pairs = {} THEN 0
    ELSE LET kv == CHOOSE p \in pairs : TRUE
         IN Len(kv[1]) + Len(kv[2]) + PairBytes(pairs \ {kv})

\* C28: after the replay of Engine::open, memtable_bytes is the sum of
\* |key| + |value| over the entries of the memtable, so that the first put
\* after a restart tests the threshold against the replayed data.
C28_ReplayCountsBytes ==
    (status = "up" /\ last.op = "open" /\ nRestarts >= 1) =>
       memtable_bytes = PairBytes(Held(memtable))

\* what the finite map m binds key to
Bound(m, key) == IF \E kv \in m : kv[1] = key THEN Some((CHOOSE kv \in m : kv[1] = key)[2]) ELSE None

\* get answers as the finite map does
MapAnswers == \A key \in RadixKeys \ {<<>>} : TrieGet(radix.tree, key) = Ok(Bound(radix.map, key))

\* a call on one key leaves what get returns for every other key
OtherKeysKept ==
    \A key \in RadixKeys, other \in RadixKeys \ {<<>>} :
       (radix'.nCalls = radix.nCalls + 1 /\ radix'.last.key = key /\ other # key) =>
          GetAfter(other) = GetBefore(other)

\* C29: used by one thread, the trie is a finite map: get(k) returns the
\* value of the latest write to k that returned Ok and that no remove(k)
\* followed, and None otherwise; a write or a remove on k leaves get(k') as it
\* was for every other key k', prefixes and extensions of k included.
C29_FiniteMap == []MapAnswers /\ [][OtherKeysKept]_vars

\* the child slots that hold node n
Referrers(heap, n) ==
    {mb \in {<<m, b>> : m \in 1..Len(heap), b \in {1, 2, 3}} :
        Child(heap, mb[1], mb[2]) = n}

\* every node that was installed is held by exactly one child slot
NoNodeLost == \A n \in 2..Len(race.heap) : Cardinality(Referrers(race.heap, n)) = 1

\* a child slot that holds a node holds it for good
SlotsKept ==
    \A m \in 1..Len(race.heap) :
       \A b \in DOMAIN race.heap[m].children :
          Child(race'.heap, m, b) = race.heap[m].children[b]

\* both threads have returned from their first call, an insert or a put, on
\* distinct keys
WritersDone ==
    /\ \A t \in Threads : /\ race.threads[t].pc = "done"
                          /\ race.threads[t].calls = 1
                          /\ race.threads[t].op \in {"insert", "put"}
    /\ race.threads[1].key # race.threads[2].key

\* C30: when two threads insert or put distinct keys that share a prefix
\* whose nodes do not exist, each child slot gets one node for good (the
\* thread whose compare_exchange fails goes on from the node of the other),
\* no installed node is lost, and once both have returned each key is
\* retrievable with its own value.
C30_RacingWriters ==
    /\ []NoNodeLost
    /\ [][SlotsKept]_vars
    /\ [](WritersDone =>
             \A t \in Threads :
                /\ HeapGet(race.heap, race.threads[t].key) = Ok(Some(race.threads[t].val))
                /\ race.threads[t].res = IF race.threads[t].op = "put"
                                         THEN Ok(Some(race.threads[t].val)) ELSE Ok(None))

C30_Witness ==
    /\ WritersDone
    /\ race.threads[1].op = "insert" /\ race.threads[1].key = <<1, 2>>
    /\ race.threads[2].op = "put" /\ race.threads[2].key = <<1, 3>>
    /\ ~race.threads[1].adopted
    /\ race.threads[2].adopted
    /\ Len(race.heap) = 4
    /\ HeapGet(race.heap, <<1, 2>>) = Ok(Some(race.threads[1].val))
    /\ HeapGet(race.heap, <<1, 3>>) = Ok(Some(race.threads[2].val))

\* the value in the slot of node n, without the identity of its pointer
SlotValue(heap, n) == IF heap[n].value = None THEN None ELSE Some(heap[n].value[1].v)

\* thread t makes the compare_exchange of its put in this step
PutCasStep(t) == race.threads[t].pc = "cas_value" /\ race'.threads[t].pc = "done"

\* the put succeeds and the slot holds its value, or it returns Failed with
\* the value the slot holds and leaves the slot as it is
PutOutcome ==
    \A t \in Threads :
       PutCasStep(t) =>
          \E th \in {race.threads[t]} :
             \/ /\ race'.threads[t].res = Ok(Some(th.val))
                /\ SlotValue(race'.heap, th.curr) = Some(th.val)
             \/ /\ race.heap[th.curr].value # None
                /\ race'.threads[t].res = ErrWith("Failed", race.heap[th.curr].value[1].v)
                /\ race'.heap = race.heap

\* both threads have returned, they called the same key, one of them put
SameKeyDone ==
    /\ \A t \in Threads : race.threads[t].pc = "done"
    /\ race.threads[1].key = race.threads[2].key
    /\ \E t \in Threads : race.threads[t].op = "put"

\* the slot holds what the last call that returned Ok wrote
LastWriterWins ==
    SameKeyDone =>
       \A n \in {HeapWalk(race.heap, 1, race.threads[1].key, 1)} :
          n # 0 => SlotValue(race.heap, n) = race.acked[n]

\* C31: a put that races with a put, an insert or a remove on its key either
\* succeeds or returns Failed with the value it found in the slot when its
\* compare_exchange failed, and then leaves the slot alone; when both calls
\* have returned the slot holds the value of the last writer that succeeded.
C31_PutRace == [][PutOutcome]_vars /\ []LastWriterWins

\* a reader's get returns in this step, while the flush is at one of pcs
GetDuring(pcs) == flush'.got # flush.got /\ flush.pc \in pcs

\* the get returned the value the flushed memtable held for its key
PreFlushValue ==
    \A i \in 1..Len(flush.k_v_iters) :
       flush'.got.key = flush.k_v_iters[i][1] =>
          flush'.got.res = Ok(Some(flush.k_v_iters[i][2]))

\* C32: a get that runs between two steps of a flush returns, for every key
\* the memtable held when the flush began, the value it held: at each step
\* the key is in the live memtable or in a reader of the reader list.
C32_GetDuringFlush ==
    [][GetDuring({"written", "reset", "rotated", "appended"}) => PreFlushValue]_vars

DistinctKeys(entries) ==
    \A i, j \in 1..Len(entries) : i # j => entries[i][1] # entries[j][1]

\* the offset in the file at which the first n entries end
RECURSIVE DataEnd(_, _)
DataEnd(entries, n) ==
    IF n = 0 THEN SST_COUNT_LEN
    ELSE DataEnd(entries, n - 1) + 4 + Len(entries[n][1]) + 4 + Len(entries[n][2])

\* the two fields of the footer
FooterField(file, back) == FromBeBytes(ReadExact(file, Len(file) - back, 8)[1])

\* C33: for entries with distinct keys written by write_all, in any order, a
\* reader opens the file; the footer holds the end of the data block and the
\* number of entries; the index has one offset per entry, which points at
\* the key length of that entry; get returns Some(v) for every written
\* (k, v) and None for every other key.
C33_SstRoundTrip ==
    (table.status \in {"open", "failed"} /\ DistinctKeys(table.entries)) =>
       /\ table.status = "open"
       /\ FooterField(table.file, 16) = DataEnd(table.entries, Len(table.entries))
       /\ FooterField(table.file, 8) = Len(table.entries)
       /\ DOMAIN table.index = {table.entries[i][1] : i \in 1..Len(table.entries)}
       /\ \A i \in 1..Len(table.entries) :
             /\ table.index[table.entries[i][1]] = DataEnd(table.entries, i - 1)
             /\ ReadExact(table.file, DataEnd(table.entries, i - 1), 4)
                   = Some(ToBeBytes(Len(table.entries[i][1]), 4))
             /\ ReadExact(table.file, DataEnd(table.entries, i - 1) + 4,
                          Len(table.entries[i][1])) = Some(table.entries[i][1])
       /\ table.got.called =>
             table.got.res =
                IF \E i \in 1..Len(table.entries) : table.entries[i][1] = table.got.key
                THEN Ok(Some(table.entries[CHOOSE i \in 1..Len(table.entries) :
                                              table.entries[i][1] = table.got.key][2]))
                ELSE Ok(None)

C33_Witness ==
    /\ table.status = "open"
    /\ table.entries = << <<(<<2>>), <<7>>>>, <<(<<1>>), <<8>>>>, <<(<<1, 2>>), <<>>>> >>
    /\ table.got.called
    /\ table.got.key = <<1>>
    /\ table.got.res = Ok(Some(<<8>>))


RECURSIVE DataEntries(_, _, _)

\* the n entries read one after the other from pos on: [klen][key][vlen][value]
DataEntries(file, pos, n) ==
    IF n = 0 THEN <<>>
    ELSE LET klen == FromBeBytes(ReadExact(file, pos, 4)[1])
             vlen == FromBeBytes(ReadExact(file, pos + 4 + klen, 4)[1])
         IN << <<ReadExact(file, pos + 4, klen)[1],
                 ReadExact(file, pos + 4 + klen + 4, vlen)[1]>> >>
            \o DataEntries(file, pos + 4 + klen + 4 + vlen, n - 1)

\* the entries of the data block of an SST file, in file order
SstEntries(file) ==
    DataEntries(file, SST_COUNT_LEN, FromBeBytes(ReadExact(file, 0, SST_COUNT_LEN)[1]))

StrictlyAscending(entries) ==
    \A i, j \in 1..Len(entries) : i < j => SeqLess(entries[i][1], entries[j][1], 1)

\* C34: the data block of the SST that a flushing put writes holds the pairs
\* of the flushed memtable in the order of iter_all, and that order is
\* strictly ascending bytewise key order, so no key is written twice.
C34_SstOrder ==
    [][\A key \in Keys, val \in Values :
          (PutStep(key, val) /\ last'.flushed) =>
             /\ SstEntries(sstFiles'[NewReader.id]) = IterAll(memtable)
             /\ StrictlyAscending(SstEntries(sstFiles'[NewReader.id]))
             /\ {SstEntries(sstFiles'[NewReader.id])[i] :
                    i \in 1..Len(SstEntries(sstFiles'[NewReader.id]))} = Held(memtable)]_vars

C34_Witness ==
    /\ last.op = "put"
    /\ last.flushed
    /\ Len(sst_readers) = 1
    /\ SstEntries(sstFiles[sst_readers[1].id])
          = << <<(<<1>>), <<7>>>>, <<(<<1, 2>>), <<>>>> >>


\* the step is a put or a delete that appended a record to wal.log
AppendStep == nOps' = nOps + 1 /\ last'.op \in {"put", "delete"} /\ last'.appended

\* the record that the call of the step handed to append_record
AppendedRecord ==
    [lsn |-> last'.lsn,
     op |-> IF last'.op = "put" THEN "Put" ELSE "Delete",
     key |-> last'.key,
     value |-> IF last'.op = "put" THEN Some(last'.val) ELSE None]

\* the step is an Engine::open that returned an engine on the files a closed
\* engine left
ReopenStep == status = "down" /\ last'.op = "open" /\ status' = "up"

\* C35: read_all returns the records appended since wal.log was last
\* truncated, in append order and with the lsn, op, key and value they were
\* appended with: an append adds its record behind those read before it (a
\* flush leaves none), a close and a reopen without truncation change
\* nothing; after an append header bytes 0..8 hold the end of the log and
\* bytes 8..16 the record's LSN, and a reopened writer resumes at the end of
\* the log, which is 16 when the file has no header.
C35_ReadAllReturnsAppended ==
    [][/\ AppendStep =>
             /\ ReadAll(walFile').ok
             /\ ReadAll(walFile').records =
                   (IF last'.flushed THEN <<>> ELSE ReadAll(walFile).records)
                   \o <<AppendedRecord>>
             /\ WalHeaderLsn(walFile') = ReadAll(walFile').end
             /\ WalHeaderLsn(walFile') = Len(walFile')
             /\ WalHeaderAppendableLsn(walFile') = last'.lsn
       /\ ReopenStep =>
             /\ ReadAll(walFile') = ReadAll(walFile)
             /\ wal'.lsn = ReadAll(walFile).end
             /\ wal'.lsn = IF Len(walFile) < 8 THEN WAL_HEADER_LEN
                           ELSE FromBeBytes(SubSeq(walFile, 1, 8))]_vars


\* C36: a put with the empty key, which the memtable rejects, changes
\* nothing: it triggers no flush and creates no SST file, and the memtable,
\* memtable_bytes, the contents of wal.log and next_lsn are as before the
\* call, for every value.
C36_RejectedPutChangesNothing ==
    [][\A val \in Values :
          (PutStep(EmptyKey, val) /\ last'.res.tag = "Err") =>
             /\ ~last'.flushed
             /\ sstFiles' = sstFiles
             /\ sst_readers' = sst_readers
             /\ memtable' = memtable
             /\ memtable_bytes' = memtable_bytes
             /\ walFile' = walFile
             /\ next_lsn' = next_lsn]_vars


\* C37: whenever an engine is up, the offset at which its WAL writer will
\* write the next record is at least 16 and not below the end of the last
\* record read_all returns from wal.log, so that an append writes over
\* neither the header nor a record that a replay applies; this also after
\* an append that stopped before its header writes and a reopen without
\* truncation.
C37_AppendOverwritesNothing ==
    status = "up" =>
       /\ wal.lsn >= WAL_HEADER_LEN
       /\ wal.lsn >= ReadAll(walFile).end

=============================================================================
